---------------------------- MODULE Spec2Model ----------------------------
(***************************************************************************)
(* A model of the CRAM record decoding engine of noodles:                  *)
(*   - mate resolution over the records of one slice                       *)
(*     (noodles-cram/src/data_container/slice.rs);                         *)
(*   - the record reader and its encoding evaluator                        *)
(*     (noodles-cram/src/reader/record.rs).                                *)
(* Option<T> values are sequences of length at most one: None is << >>     *)
(* and Some(x) is << x >>.  Byte strings are sequences of byte values.     *)
(* Lists indexed by usize are functions over 0 .. len - 1.                 *)
(***************************************************************************)
EXTENDS Integers, Sequences, FiniteSets, TLC

\* ------------------------------------------------------------------------
\* Bounds of the model
\* ------------------------------------------------------------------------

\* The largest number of records handed to resolve_mates.
MaxRecords == 3

\* ------------------------------------------------------------------------
\* Option, bit flags and text helpers
\* ------------------------------------------------------------------------

None == << >>

Some(x) == << x >>

\* Option::unwrap_or_default for an Option of an integer.
unwrap_or_default(o) == IF o = None THEN 0 ELSE o[1]

\* bitflags: `flags & bit != 0` for a single-bit mask.
HasBit(n, bit) == (n \div bit) % 2 = 1

\* bitflags: `flags |= bit` for a single-bit mask.
SetBit(n, bit) == IF HasBit(n, bit) THEN n ELSE n + bit

\* sam::record::Flags
UNMAPPED == 4

MATE_UNMAPPED == 8

REVERSE_COMPLEMENTED == 16

MATE_REVERSE_COMPLEMENTED == 32

\* cram::record::Flags
QUALITY_SCORES_STORED_AS_ARRAY == 1

DETACHED == 2

HAS_MATE_DOWNSTREAM == 4

\* The decimal digits of a natural number, as ASCII bytes.
RECURSIVE Digits(_)
Digits(n) == IF n < 10 THEN << 48 + n >>
             ELSE Append(Digits(n \div 10), 48 + (n % 10))

\* i64::to_string().into_bytes()
to_string(n) == IF n < 0 THEN << 45 >> \o Digits(0 - n) ELSE Digits(n)

\* ------------------------------------------------------------------------
\* Records handed to mate resolution
\* ------------------------------------------------------------------------

\* Record::alignment_end: the last reference position a record without
\* read features covers.
alignment_end(r) == unwrap_or_default(r.alignment_start) + r.read_length - 1

\* Record::default()
DefaultRecord ==
    [ id |-> 0,
      bam_bit_flags |-> 0,
      flags |-> 0,
      reference_sequence_id |-> None,
      read_length |-> 0,
      alignment_start |-> None,
      read_group |-> -1,
      read_name |-> << >>,
      next_mate_bit_flags |-> 0,
      next_fragment_reference_sequence_id |-> None,
      next_mate_alignment_start |-> None,
      template_size |-> 0,
      distance_to_next_fragment |-> 0,
      tags |-> << >>,
      bases |-> << >>,
      features |-> << >>,
      mapping_quality |-> None,
      quality_scores |-> << >> ]

\* Record::builder() with the fields the test of resolve_mates sets.
NewRecord(id, flags, bam, ref, start, len, dist, name) ==
    [ DefaultRecord EXCEPT
      !.id = id,
      !.flags = flags,
      !.bam_bit_flags = bam,
      !.reference_sequence_id = ref,
      !.alignment_start = start,
      !.read_length = len,
      !.distance_to_next_fragment = dist,
      !.read_name = name ]

\* The values of distance_to_next_fragment tried for a mate-downstream
\* record: forward links, and negative values a stream can hold.
Distances == {-2, -1, 0, 1}

\* The first record id of the slice (Header::record_counter).
RecordCounters == {1, 9}

\* The mate linkage of an input record: "none", "detached", or a distance.
LinkKinds == {<< "none", 0 >>, << "detached", 0 >>} \cup
             { << "downstream", d >> : d \in Distances }

\* The k-th input record.  A placed record lies on reference (k mod 2) at
\* position 3 + 2k and is reverse complemented when k is odd; an unplaced
\* one is unmapped.  A record has a read name when the slice stores read
\* names or the record is detached.
InputRecord(k, counter, link, placed, names) ==
    LET flags == IF link[1] = "downstream" THEN HAS_MATE_DOWNSTREAM
                 ELSE IF link[1] = "detached" THEN DETACHED ELSE 0
        bam   == IF ~placed THEN UNMAPPED
                 ELSE IF k % 2 = 1 THEN REVERSE_COMPLEMENTED ELSE 0
        named == names \/ link[1] = "detached"
        base  == NewRecord(counter + k, flags, bam,
                           IF placed THEN Some(k % 2) ELSE None,
                           IF placed THEN Some(3 + 2 * k) ELSE None,
                           4, link[2],
                           IF named THEN << 113, 48 + k >> ELSE << >>)
    IN  IF link[1] = "detached"
        THEN [base EXCEPT !.next_fragment_reference_sequence_id = Some(1),
                          !.next_mate_alignment_start = Some(9),
                          !.template_size = 5]
        ELSE base

VARIABLES
    records,          \* resolve_mates: the record list being resolved
    input,            \* history: the list as passed to resolve_mates
    mate_indices,     \* resolve_mates: Option<usize> per record
    i,                \* resolve_mates: index of the outer loop
    j,                \* resolve_mates: index of the borrowed `record`
    rm_pc,            \* resolve_mates: position in the function
    overflow_checks,  \* build: whether integer overflow panics
    walks,            \* history: the chain walks begun so far
    reached,          \* history: indices reached through a downstream link
    compression_header,     \* Reader: the compression header (read-only)
    reference_sequence_id,  \* Reader: the slice's reference sequence id
    reader,           \* Reader: the streams and prev_alignment_start
    record_count,     \* Slice: the number of records of the slice
    record_counter,   \* Slice: the id of the first record of the slice
    returned,         \* the io::Result of Slice::records, once it returned
    result,           \* the io::Result of the last read_record call
    calls,            \* history: the number of read_record calls made
    starts,           \* history: initial start plus the decoded deltas
    fed,              \* history: the items of the record last read
    pre,              \* a function checked on its own: the streams it is given
    call,             \* a function checked on its own: its name and arguments
    encoded_substitution_matrix,  \* the five bytes given to try_from
    substitution_matrix,          \* SubstitutionMatrix: its substitutions
    given,            \* history: the array or the matrix the conversions began with
    converted,        \* history: the conversions applied so far
    inner,            \* Writer: the containers written to the output stream
    data_container_builder,  \* Writer: the records of the pending container
    writer_pc,        \* Writer: "open", "finished" (try_finish called) or "dropped"
    accepted,         \* history: the number of records write_record accepted
    query,            \* Query: chunks, region, chunk index i and state
    vcf,              \* Query: the reader, its lines and virtual position
    yielded,          \* history: the items the next() calls returned
    seeks,            \* history: the chunk indices seeked with success
    io_errors         \* history: the I/O errors the reader reported

mates_vars == << records, input, mate_indices, i, j, rm_pc, overflow_checks,
                 walks, reached >>

reader_vars == << compression_header, reference_sequence_id, reader,
                 record_count, record_counter, returned, result, calls,
                 starts, fed >>

call_vars == << pre, call >>

matrix_vars == << encoded_substitution_matrix, substitution_matrix, given,
                  converted >>

writer_vars == << inner, data_container_builder, writer_pc, accepted >>

query_vars == << query, vcf, yielded, seeks, io_errors >>

other_vars == << writer_vars, query_vars >>

vars == << mates_vars, reader_vars, call_vars, matrix_vars, other_vars >>

Len0(f) == Cardinality(DOMAIN f)

\* ------------------------------------------------------------------------
\* slice.rs: resolve_mates
\* ------------------------------------------------------------------------

\* `i + distance as usize + 1` on a 64-bit usize.  A usize at or above 2^63
\* is written as the negative number with the same bits, so the cast of a
\* negative i32 keeps its value; the addition carries out of 64 bits exactly
\* when the distance is negative and the sum is not.
mate_index_overflows(k, distance) == distance < 0 /\ k + distance + 1 >= 0

mate_index(k, distance) == k + distance + 1

\* Whether a usize indexes a list of length n.
InBounds(idx, n) == idx >= 0 /\ idx < n

\* set_mate with the link fields taken from the record itself instead of
\* from its mate.
set_mate_own_position(record, mate) ==
    LET bam1 == IF HasBit(mate.bam_bit_flags, REVERSE_COMPLEMENTED)
                THEN SetBit(record.bam_bit_flags, MATE_REVERSE_COMPLEMENTED)
                ELSE record.bam_bit_flags
        bam2 == IF HasBit(mate.bam_bit_flags, UNMAPPED)
                THEN SetBit(bam1, MATE_UNMAPPED)
                ELSE bam1
        name == IF mate.read_name = << >>
                THEN mate.read_name \o record.read_name
                ELSE mate.read_name
    IN  [ record |-> [record EXCEPT
                        !.bam_bit_flags = bam2,
                        !.next_fragment_reference_sequence_id =
                            record.reference_sequence_id,
                        !.next_mate_alignment_start = record.alignment_start],
          mate   |-> [mate EXCEPT !.read_name = name] ]

\* set_mate without the is_empty test before extending the mate's name.
set_mate_always_extends(record, mate) ==
    LET bam1 == IF HasBit(mate.bam_bit_flags, REVERSE_COMPLEMENTED)
                THEN SetBit(record.bam_bit_flags, MATE_REVERSE_COMPLEMENTED)
                ELSE record.bam_bit_flags
        bam2 == IF HasBit(mate.bam_bit_flags, UNMAPPED)
                THEN SetBit(bam1, MATE_UNMAPPED)
                ELSE bam1
    IN  [ record |-> [record EXCEPT
                        !.bam_bit_flags = bam2,
                        !.next_fragment_reference_sequence_id =
                            mate.reference_sequence_id,
                        !.next_mate_alignment_start = mate.alignment_start],
          mate   |-> [mate EXCEPT
                        !.read_name = mate.read_name \o record.read_name] ]

\* set_mate that leaves the BAM flags of the record as they are.
set_mate_keeps_flags(record, mate) ==
    LET name == IF mate.read_name = << >>
                THEN mate.read_name \o record.read_name
                ELSE mate.read_name
    IN  [ record |-> [record EXCEPT
                        !.next_fragment_reference_sequence_id =
                            mate.reference_sequence_id,
                        !.next_mate_alignment_start = mate.alignment_start],
          mate   |-> [mate EXCEPT !.read_name = name] ]

\* set_mate(&mut record, &mut mate): both records after the call.
set_mate(record, mate) ==
    LET bam1 == IF HasBit(mate.bam_bit_flags, REVERSE_COMPLEMENTED)
                THEN SetBit(record.bam_bit_flags, MATE_REVERSE_COMPLEMENTED)
                ELSE record.bam_bit_flags
        bam2 == IF HasBit(mate.bam_bit_flags, UNMAPPED)
                THEN SetBit(bam1, MATE_UNMAPPED)
                ELSE bam1
        name == IF mate.read_name = << >>
                THEN mate.read_name \o record.read_name
                ELSE mate.read_name
    IN  [ record |-> [record EXCEPT
                        !.bam_bit_flags = bam2,
                        !.next_fragment_reference_sequence_id =
                            mate.reference_sequence_id,
                        !.next_mate_alignment_start = mate.alignment_start],
          mate   |-> [mate EXCEPT !.read_name = name] ]

calculate_template_size(record, mate) ==
    LET start == unwrap_or_default(record.alignment_start)
        end   == alignment_end(mate)
    IN  end - start + 1

\* The first loop: mate_indices[i] = Some(i + distance + 1) for every
\* mate-downstream record.
ComputeMateIndices(recs) ==
    [ k \in DOMAIN recs |->
        IF HasBit(recs[k].flags, HAS_MATE_DOWNSTREAM)
        THEN Some(mate_index(k, recs[k].distance_to_next_fragment))
        ELSE None ]

IndexOverflows(recs) ==
    \E k \in DOMAIN recs :
        /\ HasBit(recs[k].flags, HAS_MATE_DOWNSTREAM)
        /\ mate_index_overflows(k, recs[k].distance_to_next_fragment)

\* Lines 139-151: build mate_indices; an overflowing index addition panics
\* in a build with overflow checks and wraps otherwise.
IndexMates ==
    /\ rm_pc = "start"
    /\ IF IndexOverflows(records) /\ overflow_checks
       THEN /\ rm_pc' = "panicked"
            /\ UNCHANGED << mate_indices, i >>
       ELSE /\ mate_indices' = ComputeMateIndices(records)
            /\ i' = 0
            /\ rm_pc' = "scan"
    /\ UNCHANGED << records, input, j, overflow_checks, walks, reached >>
    /\ UNCHANGED reader_vars
    /\ UNCHANGED call_vars
    /\ UNCHANGED matrix_vars
    /\ UNCHANGED other_vars

\* SkipRecord that gives the passed-over record a name from its id.
SkipRecord_names_record ==
    /\ rm_pc = "scan"
    /\ i < Len0(records)
    /\ mate_indices[i] = None
    /\ i' = i + 1
    /\ records' = [records EXCEPT ![i].read_name =
                      IF @ = << >> THEN @ \o to_string(records[i].id) ELSE @]
    /\ UNCHANGED << input, mate_indices, j, rm_pc, overflow_checks,
                    walks, reached >>
    /\ UNCHANGED reader_vars
    /\ UNCHANGED call_vars
    /\ UNCHANGED matrix_vars
    /\ UNCHANGED other_vars

\* Lines 153-156: a record without a downstream link is passed over.
SkipRecord ==
    /\ rm_pc = "scan"
    /\ i < Len0(records)
    /\ mate_indices[i] = None
    /\ i' = i + 1
    /\ UNCHANGED << records, input, mate_indices, j, rm_pc, overflow_checks,
                    walks, reached >>
    /\ UNCHANGED reader_vars
    /\ UNCHANGED call_vars
    /\ UNCHANGED matrix_vars
    /\ UNCHANGED other_vars

\* Lines 158-165: borrow the record, give it a read name, start the walk.
BeginChain ==
    /\ rm_pc = "scan"
    /\ i < Len0(records)
    /\ mate_indices[i] # None
    /\ records' = [records EXCEPT ![i].read_name =
                      IF @ = << >> THEN @ \o to_string(records[i].id) ELSE @]
    /\ j' = i
    /\ rm_pc' = "walk"
    /\ walks' = Append(walks, [head |-> i, revisit |-> i \in reached])
    /\ UNCHANGED << input, mate_indices, i, overflow_checks, reached >>
    /\ UNCHANGED reader_vars
    /\ UNCHANGED call_vars
    /\ UNCHANGED matrix_vars
    /\ UNCHANGED other_vars

\* Lines 167-172: one iteration of the while loop.  `record` is the borrow
\* of records[j]; indexing past the list or borrowing records[j] again
\* panics.
WalkStep ==
    /\ rm_pc = "walk"
    /\ mate_indices[j] # None
    /\ LET m == mate_indices[j][1]
       IN  IF ~InBounds(m, Len0(records)) \/ m = j
           THEN /\ rm_pc' = "panicked"
                /\ UNCHANGED << records, j, reached >>
           ELSE LET r == set_mate(records[j], records[m])
                IN  /\ records' = [records EXCEPT ![j] = r.record,
                                                  ![m] = r.mate]
                    /\ j' = m
                    /\ reached' = reached \cup {m}
                    /\ UNCHANGED rm_pc
    /\ UNCHANGED << input, mate_indices, i, overflow_checks, walks >>
    /\ UNCHANGED reader_vars
    /\ UNCHANGED call_vars
    /\ UNCHANGED matrix_vars
    /\ UNCHANGED other_vars

\* Lines 174-179: `record` is the tail records[j]; `mate` borrows the
\* record the walk began at; template sizes are written to both.
FinishChain ==
    /\ rm_pc = "walk"
    /\ mate_indices[j] = None
    /\ IF j = i
       THEN /\ rm_pc' = "panicked"
            /\ UNCHANGED << records, i >>
       ELSE LET r == set_mate(records[j], records[i])
                template_size == calculate_template_size(r.record, r.mate)
            IN  /\ records' = [records EXCEPT
                      ![j] = [r.record EXCEPT !.template_size = template_size],
                      ![i] = [r.mate EXCEPT
                                 !.template_size = 0 - template_size]]
                /\ i' = i + 1
                /\ rm_pc' = "scan"
    /\ UNCHANGED << input, mate_indices, j, overflow_checks, walks, reached >>
    /\ UNCHANGED reader_vars
    /\ UNCHANGED call_vars
    /\ UNCHANGED matrix_vars
    /\ UNCHANGED other_vars

\* Line 182: the list is returned.
Return ==
    /\ rm_pc = "scan"
    /\ i = Len0(records)
    /\ rm_pc' = "done"
    /\ UNCHANGED << records, input, mate_indices, i, j, overflow_checks,
                    walks, reached >>
    /\ UNCHANGED reader_vars
    /\ UNCHANGED call_vars
    /\ UNCHANGED matrix_vars
    /\ UNCHANGED other_vars

\* The record reader is not in use while mates are resolved.
\* No function is being checked on its own.
CallIdle ==
    /\ pre = << >>
    /\ call = << >>

\* No writer is open.
WriterIdle ==
    /\ inner = << >>
    /\ data_container_builder = << >>
    /\ writer_pc = "idle"
    /\ accepted = 0

\* No query is open.
QueryIdle ==
    /\ query = << >>
    /\ vcf = << >>
    /\ yielded = << >>
    /\ seeks = << >>
    /\ io_errors = 0

OtherIdle == WriterIdle /\ QueryIdle

\* No substitution matrix is being decoded.
MatrixIdle ==
    /\ encoded_substitution_matrix = << >>
    /\ substitution_matrix = << >>
    /\ given = << >>
    /\ converted = << >>

ReaderIdle ==
    /\ compression_header = << >>
    /\ reference_sequence_id = -1
    /\ reader = << >>
    /\ record_count = 0
    /\ record_counter = 0
    /\ returned = << >>
    /\ result = << >>
    /\ calls = 0
    /\ starts = 0
    /\ fed = << >>

InitMates ==
    /\ \E n \in 1 .. MaxRecords :
       \E counter \in RecordCounters :
       \E names \in BOOLEAN :
       \E links \in [0 .. n - 1 -> LinkKinds] :
       \E placed \in [0 .. n - 1 -> BOOLEAN] :
          records = [ k \in 0 .. n - 1 |->
                        InputRecord(k, counter, links[k], placed[k], names) ]
    /\ input = records
    /\ mate_indices = [ k \in DOMAIN records |-> None ]
    /\ i = 0
    /\ j = 0
    /\ rm_pc = "start"
    /\ overflow_checks \in BOOLEAN
    /\ walks = << >>
    /\ reached = {}
    /\ ReaderIdle
    /\ CallIdle
    /\ OtherIdle
    /\ MatrixIdle

NextMates ==
    \/ IndexMates
    \/ SkipRecord
    \/ BeginChain
    \/ WalkStep
    \/ FinishChain
    \/ Return

SpecMates == InitMates /\ [][NextMates]_vars

\* ------------------------------------------------------------------------
\* reader/record.rs: results of fallible calls
\* ------------------------------------------------------------------------

\* io::Result<T> of a call on the reader, together with the reader state m
\* the call leaves behind.  st is "ok", "err" (an io::Error of the given
\* kind whose inner error is `error`, about a data series, a tag key or a
\* block content id) or "panic" (the call unwinds).
Ok(m, v) ==
    [ st |-> "ok", m |-> m, v |-> v, kind |-> "", error |-> "",
      series |-> "", id |-> 0 ]

Err(m, kind, error, series, id) ==
    [ st |-> "err", m |-> m, v |-> << >>, kind |-> kind, error |-> error,
      series |-> series, id |-> id ]

Panic(m, message) ==
    [ st |-> "panic", m |-> m, v |-> << >>, kind |-> "", error |-> message,
      series |-> "", id |-> 0 ]

\* `r?` followed by the rest of the function.
AndThen(r, F(_, _)) == IF r.st = "ok" THEN F(r.m, r.v) ELSE r

\* io::Result::map
MapOk(r, F(_)) == IF r.st = "ok" THEN [r EXCEPT !.v = F(r.v)] ELSE r

MissingDataSeriesEncoding(m, series) ==
    Err(m, "InvalidData", "MissingDataSeriesEncoding", series, 0)

MissingTagEncoding(m, key) ==
    Err(m, "InvalidData", "MissingTagEncoding", "", key)

MissingExternalBlock(m, block_content_id) ==
    Err(m, "InvalidData", "MissingExternalBlock", "", block_content_id)

UnexpectedEof(m) == Err(m, "UnexpectedEof", "", "", 0)

\* ------------------------------------------------------------------------
\* Encodings
\* ------------------------------------------------------------------------

External(block_content_id) ==
    [ tag |-> "External", id |-> block_content_id ]

Huffman(alphabet, bit_lens) ==
    [ tag |-> "Huffman", alphabet |-> alphabet, bit_lens |-> bit_lens ]

Beta(offset, len) == [ tag |-> "Beta", offset |-> offset, len |-> len ]

ByteArrayLen(len_encoding, value_encoding) ==
    [ tag |-> "ByteArrayLen", len_encoding |-> len_encoding,
      value_encoding |-> value_encoding ]

ByteArrayStop(stop_byte, block_content_id) ==
    [ tag |-> "ByteArrayStop", stop_byte |-> stop_byte,
      id |-> block_content_id ]

\* One of the variants no decode function has an arm for.
Gamma(offset) == [ tag |-> "Gamma", offset |-> offset ]

\* ------------------------------------------------------------------------
\* Streams: the core bit reader and the external byte readers
\* ------------------------------------------------------------------------

\* A reader state m is [core, ext, prev_alignment_start, trace]: core is the
\* sequence of bits the core data reader has not consumed, ext maps each
\* block content id to the bytes its cursor has not consumed, and trace
\* lists, in order, the decode calls of the current read_record with their
\* results.

Pow2(n) == 2 ^ n

TakeN(s, n) == SubSeq(s, 1, n)

DropN(s, n) == SubSeq(s, n + 1, Len(s))

\* The value of a sequence of bits, most significant bit first.
RECURSIVE BitsValue(_)
BitsValue(bits) ==
    IF bits = << >> THEN 0
    ELSE 2 * BitsValue(TakeN(bits, Len(bits) - 1)) + bits[Len(bits)]

\* BitReader::read_u32(len)
read_u32(m, len) ==
    IF Len(m.core) < len
    THEN UnexpectedEof([m EXCEPT !.core = << >>])
    ELSE Ok([m EXCEPT !.core = DropN(m.core, len)],
            BitsValue(TakeN(m.core, len)))

\* ReadBytesExt::read_u8 on the external reader `id`.
read_u8(m, id) ==
    IF m.ext[id] = << >>
    THEN UnexpectedEof(m)
    ELSE Ok([m EXCEPT !.ext[id] = Tail(m.ext[id])], Head(m.ext[id]))

\* The number of bytes that follow the first byte of an ITF8 value.
itf8_following(b0) ==
    IF b0 < 128 THEN 0
    ELSE IF b0 < 192 THEN 1
    ELSE IF b0 < 224 THEN 2
    ELSE IF b0 < 240 THEN 3
    ELSE 4

\* The i32 an ITF8 byte string holds.
itf8_value(b) ==
    LET k == itf8_following(b[1])
    IN  IF k = 0 THEN b[1]
        ELSE IF k = 1 THEN (b[1] % 64) * 256 + b[2]
        ELSE IF k = 2 THEN (b[1] % 32) * 65536 + b[2] * 256 + b[3]
        ELSE IF k = 3
             THEN (b[1] % 16) * 16777216 + b[2] * 65536 + b[3] * 256 + b[4]
        ELSE LET hi == b[1] % 16
                 signed_hi == IF hi >= 8 THEN hi - 16 ELSE hi
             IN  signed_hi * 268435456 + b[2] * 1048576 + b[3] * 4096
                 + b[4] * 16 + (b[5] % 16)

\* reader::num::read_itf8 on the external reader `id`.
read_itf8(m, id) ==
    LET s == m.ext[id]
    IN  IF s = << >> THEN UnexpectedEof(m)
        ELSE LET n == 1 + itf8_following(s[1])
             IN  IF Len(s) < n
                 THEN UnexpectedEof([m EXCEPT !.ext[id] = << >>])
                 ELSE Ok([m EXCEPT !.ext[id] = DropN(s, n)],
                         itf8_value(TakeN(s, n)))

\* Read::read_exact of n bytes on the external reader `id`.
\* Read::read in place of read_exact: the bytes there are, at most n.
read_up_to(m, id, n) ==
    IF Len(m.ext[id]) < n
    THEN Ok([m EXCEPT !.ext[id] = << >>], m.ext[id])
    ELSE Ok([m EXCEPT !.ext[id] = DropN(m.ext[id], n)], TakeN(m.ext[id], n))

read_exact(m, id, n) ==
    IF Len(m.ext[id]) < n
    THEN UnexpectedEof([m EXCEPT !.ext[id] = << >>])
    ELSE Ok([m EXCEPT !.ext[id] = DropN(m.ext[id], n)], TakeN(m.ext[id], n))

\* The length of the prefix of s that ends with the first `byte`, or the
\* length of s when `byte` does not occur.
RECURSIVE UntilLen(_, _)
UntilLen(s, byte) ==
    IF s = << >> THEN 0
    ELSE IF Head(s) = byte THEN 1
    ELSE 1 + UntilLen(Tail(s), byte)

\* BufRead::read_until(byte, &mut buf) on the external reader `id`: the
\* bytes up to and including the delimiter, or up to the end of the stream.
read_until(m, id, byte) ==
    LET n == UntilLen(m.ext[id], byte)
    IN  Ok([m EXCEPT !.ext[id] = DropN(m.ext[id], n)], TakeN(m.ext[id], n))

\* The buffer left as it is, the stop byte kept.
pop_nothing(buf) == buf

\* Vec::pop, ignoring the popped value.
pop(buf) == IF buf = << >> THEN buf ELSE TakeN(buf, Len(buf) - 1)

\* ------------------------------------------------------------------------
\* Canonical Huffman decoder
\* ------------------------------------------------------------------------

\* The position of symbol k in the order by (code length, symbol index).
HuffmanRank(bit_lens, k) ==
    Cardinality({ x \in 1 .. Len(bit_lens) :
                    \/ bit_lens[x] < bit_lens[k]
                    \/ bit_lens[x] = bit_lens[k] /\ x < k })

\* The canonical code of the symbol of rank r (r >= 0), as a number.
RECURSIVE HuffmanCode(_, _)
HuffmanCode(bit_lens, r) ==
    LET at(q) == CHOOSE k \in 1 .. Len(bit_lens) : HuffmanRank(bit_lens, k) = q
    IN  IF r = 0 THEN 0
        ELSE (HuffmanCode(bit_lens, r - 1) + 1)
             * Pow2(bit_lens[at(r)] - bit_lens[at(r - 1)])

\* CanonicalHuffmanDecoder::decode with `n` bits read so far, of value
\* `code`.
RECURSIVE huffman_decode_from(_, _, _, _, _)
huffman_decode_from(m, alphabet, bit_lens, n, code) ==
    LET hits == { k \in 1 .. Len(bit_lens) :
                    /\ bit_lens[k] = n
                    /\ HuffmanCode(bit_lens, HuffmanRank(bit_lens, k)) = code }
    IN  IF n > 0 /\ hits # {}
        THEN Ok(m, alphabet[CHOOSE k \in hits : TRUE])
        ELSE IF m.core = << >>
        THEN UnexpectedEof(m)
        ELSE huffman_decode_from([m EXCEPT !.core = Tail(m.core)],
                                 alphabet, bit_lens, n + 1,
                                 2 * code + Head(m.core))

huffman_decode(m, alphabet, bit_lens) ==
    huffman_decode_from(m, alphabet, bit_lens, 0, 0)

\* ------------------------------------------------------------------------
\* reader/record.rs: the encoding evaluator
\* ------------------------------------------------------------------------

I32_MAX == 2147483647

\* `n as u8`
as_u8(n) == n % 256

\* `a - b` on i32: a panic when overflow checks are compiled in, the wrapped
\* difference otherwise.
sub_i32(m, a, b) ==
    IF b < 0 /\ a > I32_MAX + b
    THEN IF overflow_checks
         THEN Panic(m, "attempt to subtract with overflow")
         ELSE Ok(m, (a - I32_MAX - 1) - (b + I32_MAX + 1))
    ELSE IF b > 0 /\ a < (0 - I32_MAX - 1) + b
    THEN IF overflow_checks
         THEN Panic(m, "attempt to subtract with overflow")
         ELSE Ok(m, (a + I32_MAX + 1) - (b - I32_MAX - 1))
    ELSE Ok(m, a - b)

decode_byte(m, encoding) ==
    CASE encoding.tag = "External" ->
            IF encoding.id \notin DOMAIN m.ext
            THEN MissingExternalBlock(m, encoding.id)
            ELSE read_u8(m, encoding.id)
      [] encoding.tag = "Huffman" ->
            IF Len(encoding.alphabet) = 1
            THEN Ok(m, as_u8(encoding.alphabet[1]))
            ELSE MapOk(huffman_decode(m, encoding.alphabet,
                                      encoding.bit_lens), as_u8)
      [] encoding.tag = "Beta" ->
            MapOk(AndThen(read_u32(m, encoding.len),
                          LAMBDA m1, n : sub_i32(m1, n, encoding.offset)),
                  as_u8)
      [] OTHER -> Panic(m, "not yet implemented: decode_byte")

\* decode_itf8 with the decoder run for a single-symbol alphabet too.
decode_itf8_always_decoding(m, encoding) ==
    CASE encoding.tag = "External" ->
            IF encoding.id \notin DOMAIN m.ext
            THEN MissingExternalBlock(m, encoding.id)
            ELSE read_itf8(m, encoding.id)
      [] encoding.tag = "Huffman" ->
            huffman_decode(m, encoding.alphabet, encoding.bit_lens)
      [] encoding.tag = "Beta" ->
            AndThen(read_u32(m, encoding.len),
                    LAMBDA m1, n : sub_i32(m1, n, encoding.offset))
      [] OTHER -> Panic(m, "not yet implemented: decode_itf8")

decode_itf8(m, encoding) ==
    CASE encoding.tag = "External" ->
            IF encoding.id \notin DOMAIN m.ext
            THEN MissingExternalBlock(m, encoding.id)
            ELSE read_itf8(m, encoding.id)
      [] encoding.tag = "Huffman" ->
            IF Len(encoding.alphabet) = 1
            THEN Ok(m, encoding.alphabet[1])
            ELSE huffman_decode(m, encoding.alphabet, encoding.bit_lens)
      [] encoding.tag = "Beta" ->
            AndThen(read_u32(m, encoding.len),
                    LAMBDA m1, n : sub_i32(m1, n, encoding.offset))
      [] OTHER -> Panic(m, "not yet implemented: decode_itf8")

\* decode_byte_array; buf is None or Some(n) for a zeroed buffer of n bytes.
RECURSIVE decode_byte_array(_, _, _)
decode_byte_array(m, encoding, buf) ==
    CASE encoding.tag = "External" ->
            IF encoding.id \notin DOMAIN m.ext
            THEN MissingExternalBlock(m, encoding.id)
            ELSE IF buf = None
            THEN Panic(m, "missing buf")
            ELSE read_exact(m, encoding.id, buf[1])
      [] encoding.tag = "ByteArrayLen" ->
            AndThen(decode_itf8(m, encoding.len_encoding),
                LAMBDA m1, len :
                    IF len < 0
                    THEN Panic(m1, "capacity overflow")
                    ELSE decode_byte_array(m1, encoding.value_encoding,
                                           Some(len)))
      [] encoding.tag = "ByteArrayStop" ->
            IF encoding.id \notin DOMAIN m.ext
            THEN MissingExternalBlock(m, encoding.id)
            ELSE MapOk(read_until(m, encoding.id, encoding.stop_byte), pop)
      [] OTHER -> Panic(m, "not yet implemented: decode_byte_array")

\* ------------------------------------------------------------------------
\* reader/record.rs: Reader
\* ------------------------------------------------------------------------

\* container::ReferenceSequenceId of the slice header, as its i32:
\* Some(n) is n, None is -1, Many is -2.
MANY == -2

\* bam::record::reference_sequence_id::UNMAPPED
UNMAPPED_REFERENCE == -1

\* sam::record::mapping_quality::MISSING
MISSING == 255

\* data_series_encoding_map().<series>_encoding(): Some(encoding) or None.
encoding_of(series) == compression_header.encodings[series]

\* History: the result r of decoding a data series (or the tag `key`) is
\* appended to the trace of the call.
Log(series, key, r) ==
    [r EXCEPT !.m.trace =
        Append(@, [ series |-> series, key |-> key, st |-> r.st, v |-> r.v ])]

TryFromIntError(m) == Err(m, "InvalidData", "TryFromIntError", "", 0)

\* `n as u16` in place of u16::try_from(n): the low 16 bits.
u16_cast(m, n) == Ok(m, n % 65536)

\* u16::try_from(n)
u16_try_from(m, n) ==
    IF n >= 0 /\ n <= 65535 THEN Ok(m, n) ELSE TryFromIntError(m)

\* u8::try_from(n)
u8_try_from(m, n) ==
    IF n >= 0 /\ n <= 255 THEN Ok(m, n) ELSE TryFromIntError(m)

\* usize::try_from(n)
usize_try_from(m, n) == IF n >= 0 THEN Ok(m, n) ELSE TryFromIntError(m)

\* sam::record::Position::try_from(n): positions start at 1.
position_try_from(m, n) ==
    IF n >= 1 THEN Ok(m, n) ELSE Err(m, "InvalidData", "TryFromIntError", "", 0)

\* bam::record::ReferenceSequenceId::try_from(n): ids start at 0.
reference_sequence_id_try_from(m, n) ==
    IF n >= 0 THEN Ok(m, n) ELSE Err(m, "InvalidData", "TryFromIntError", "", 0)

\* a + b on i32: an overflow panics in a build with overflow checks and
\* wraps otherwise.
add_i32(m, a, b) ==
    IF b > 0 /\ a > I32_MAX - b
    THEN IF overflow_checks
         THEN Panic(m, "attempt to add with overflow")
         ELSE Ok(m, (a - I32_MAX - 1) + (b - I32_MAX - 1))
    ELSE IF b < 0 /\ a < (0 - I32_MAX - 1) - b
    THEN IF overflow_checks
         THEN Panic(m, "attempt to add with overflow")
         ELSE Ok(m, (a + I32_MAX + 1) + (b + I32_MAX + 1))
    ELSE Ok(m, a + b)

\* A data series the encoding map always holds, decoded as an integer.
decode_required_itf8(m, series) ==
    Log(series, 0, decode_itf8(m, encoding_of(series)[1]))

\* `.ok_or_else(MissingDataSeriesEncoding(series))` followed by the decode.
decode_optional(m, series, Decode(_, _)) ==
    IF encoding_of(series) = None
    THEN MissingDataSeriesEncoding(m, series)
    ELSE Log(series, 0, Decode(m, encoding_of(series)[1]))

decode_optional_byte_array(m, series) ==
    decode_optional(m, series,
                    LAMBDA m1, encoding : decode_byte_array(m1, encoding, None))

read_bam_bit_flags(m) ==
    AndThen(decode_required_itf8(m, "BamBitFlags"), u16_try_from)

read_cram_bit_flags(m) ==
    AndThen(decode_required_itf8(m, "CramBitFlags"), u8_try_from)

\* read_reference_id with a default in place of the error of lines 167-176:
\* without an encoding the reference id is 0.
read_reference_id_or_default(m) ==
    IF encoding_of("ReferenceId") = None
    THEN Ok(m, 0)
    ELSE decode_optional(m, "ReferenceId", decode_itf8)

read_reference_id(m) == decode_optional(m, "ReferenceId", decode_itf8)

read_read_length(m) ==
    AndThen(decode_required_itf8(m, "ReadLengths"), usize_try_from)

\* read_alignment_start without the delta of lines 213-217: the decoded
\* value is taken as the position whatever the preservation map says.
read_alignment_start_absolute(m) ==
    AndThen(decode_required_itf8(m, "InSeqPositions"),
        LAMBDA m1, alignment_start :
            IF alignment_start = 0
            THEN Ok(m1, None)
            ELSE MapOk(position_try_from(m1, alignment_start), Some))

read_alignment_start(m) ==
    AndThen(decode_required_itf8(m, "InSeqPositions"),
        LAMBDA m1, n :
            AndThen(IF compression_header.preservation_map.ap_data_series_delta
                    THEN add_i32(m1, unwrap_or_default(m1.prev_alignment_start),
                                 n)
                    ELSE Ok(m1, n),
                LAMBDA m2, alignment_start :
                    IF alignment_start = 0
                    THEN Ok(m2, None)
                    ELSE MapOk(position_try_from(m2, alignment_start), Some)))

read_read_group(m) == decode_required_itf8(m, "ReadGroups")

\* read_positional_data with the alignment start read before the read
\* length.
read_positional_data_start_first(m, record) ==
    AndThen(IF reference_sequence_id = MANY
            THEN read_reference_id(m)
            ELSE Ok(m, reference_sequence_id),
        LAMBDA m1, reference_id :
    AndThen(IF reference_id = UNMAPPED_REFERENCE
            THEN Ok(m1, None)
            ELSE MapOk(reference_sequence_id_try_from(m1, reference_id), Some),
        LAMBDA m2, ref :
    AndThen(read_alignment_start(m2),
        LAMBDA m3, alignment_start :
    AndThen(read_read_length(m3),
        LAMBDA m4, read_length :
    AndThen(read_read_group(m4),
        LAMBDA m5, read_group :
            Ok(m5, [record EXCEPT !.reference_sequence_id = ref,
                                  !.read_length = read_length,
                                  !.alignment_start = alignment_start,
                                  !.read_group = read_group]))))))

read_positional_data(m, record) ==
    AndThen(IF reference_sequence_id = MANY
            THEN read_reference_id(m)
            ELSE Ok(m, reference_sequence_id),
        LAMBDA m1, reference_id :
    AndThen(IF reference_id = UNMAPPED_REFERENCE
            THEN Ok(m1, None)
            ELSE MapOk(reference_sequence_id_try_from(m1, reference_id), Some),
        LAMBDA m2, ref :
    AndThen(read_read_length(m2),
        LAMBDA m3, read_length :
    AndThen(read_alignment_start(m3),
        LAMBDA m4, alignment_start :
    AndThen(read_read_group(m4),
        LAMBDA m5, read_group :
            Ok(m5, [record EXCEPT !.reference_sequence_id = ref,
                                  !.read_length = read_length,
                                  !.alignment_start = alignment_start,
                                  !.read_group = read_group]))))))

read_read_name(m) == decode_optional_byte_array(m, "ReadNames")

\* read_read_names that decodes no read name.
read_read_names_never(m, record) == Ok(m, record)

read_read_names(m, record) ==
    IF compression_header.preservation_map.read_names_included
    THEN MapOk(read_read_name(m),
               LAMBDA name : [record EXCEPT !.read_name = name])
    ELSE Ok(m, record)

read_next_mate_bit_flags(m) ==
    AndThen(decode_optional(m, "NextMateBitFlags", decode_itf8), u8_try_from)

read_next_fragment_reference_sequence_id(m) ==
    AndThen(decode_optional(m, "NextFragmentReferenceSequenceId", decode_itf8),
        LAMBDA m1, id :
            IF id = UNMAPPED_REFERENCE
            THEN Ok(m1, None)
            ELSE MapOk(reference_sequence_id_try_from(m1, id), Some))

read_next_mate_alignment_start(m) ==
    AndThen(decode_optional(m, "NextMateAlignmentStart", decode_itf8),
        LAMBDA m1, n :
            IF n = 0 THEN Ok(m1, None)
            ELSE MapOk(position_try_from(m1, n), Some))

read_template_size(m) == decode_optional(m, "TemplateSize", decode_itf8)

read_distance_to_next_fragment(m) ==
    decode_optional(m, "DistanceToNextFragment", decode_itf8)

\* NextMateFlags
ON_NEGATIVE_STRAND == 1

MATE_FLAG_UNMAPPED == 2

\* read_mate_data that looks at the has-mate-downstream flag only.
read_mate_data_downstream_only(m, record, bam_flags, flags) ==
    IF HasBit(flags, HAS_MATE_DOWNSTREAM)
    THEN MapOk(read_distance_to_next_fragment(m),
               LAMBDA distance :
                   [record EXCEPT !.distance_to_next_fragment = distance])
    ELSE Ok(m, record)

read_mate_data(m, record, bam_flags, flags) ==
    IF HasBit(flags, DETACHED)
    THEN AndThen(read_next_mate_bit_flags(m),
            LAMBDA m1, next_mate_bit_flags :
            LET bam1 == IF HasBit(next_mate_bit_flags, ON_NEGATIVE_STRAND)
                        THEN SetBit(bam_flags, MATE_REVERSE_COMPLEMENTED)
                        ELSE bam_flags
                bam2 == IF HasBit(next_mate_bit_flags, MATE_FLAG_UNMAPPED)
                        THEN SetBit(bam1, MATE_UNMAPPED)
                        ELSE bam1
                rec1 == [record EXCEPT
                            !.next_mate_bit_flags = next_mate_bit_flags,
                            !.bam_bit_flags = bam2]
            IN
            AndThen(IF ~compression_header.preservation_map.read_names_included
                    THEN MapOk(read_read_name(m1),
                               LAMBDA name : [rec1 EXCEPT !.read_name = name])
                    ELSE Ok(m1, rec1),
                LAMBDA m2, rec2 :
            AndThen(read_next_fragment_reference_sequence_id(m2),
                LAMBDA m3, next_ref :
            AndThen(read_next_mate_alignment_start(m3),
                LAMBDA m4, next_start :
            AndThen(read_template_size(m4),
                LAMBDA m5, template_size :
                    Ok(m5, [rec2 EXCEPT
                              !.next_fragment_reference_sequence_id = next_ref,
                              !.next_mate_alignment_start = next_start,
                              !.template_size = template_size]))))))
    ELSE IF HasBit(flags, HAS_MATE_DOWNSTREAM)
    THEN MapOk(read_distance_to_next_fragment(m),
               LAMBDA distance :
                   [record EXCEPT !.distance_to_next_fragment = distance])
    ELSE Ok(m, record)

read_tag_line(m) == decode_required_itf8(m, "TagIds")

\* bam::reader::record::data::field::read_value for the type `C` (u8).
read_value(m, data, ty) ==
    IF data = << >> THEN UnexpectedEof(m) ELSE Ok(m, data[1])

\* The loop of read_tag_data over the keys of the tag line.
RECURSIVE read_tags(_, _, _)
read_tags(m, tag_keys, tags) ==
    IF tag_keys = << >> THEN Ok(m, tags)
    ELSE LET key == Head(tag_keys)
         IN  IF key.id \notin DOMAIN compression_header.tag_encoding_map
             THEN MissingTagEncoding(m, key.id)
             ELSE AndThen(Log("Tag", key.id,
                              decode_byte_array(
                                  m,
                                  compression_header.tag_encoding_map[key.id],
                                  None)),
                      LAMBDA m1, data :
                  AndThen(read_value(m1, data, key.ty),
                      LAMBDA m2, value :
                          read_tags(m2, Tail(tag_keys),
                                    Append(tags,
                                           [key |-> key, value |-> value]))))

\* read_tag_data without the bound of lines 437-441: a tag line past the
\* dictionary reads no tags.
read_tag_data_unbounded(m) ==
    AndThen(AndThen(read_tag_line(m), usize_try_from),
        LAMBDA m1, tag_line :
            LET dictionary ==
                    compression_header.preservation_map.tag_ids_dictionary
            IN  IF tag_line >= Len(dictionary)
                THEN read_tags(m1, << >>, << >>)
                ELSE read_tags(m1, dictionary[tag_line + 1], << >>))

read_tag_data(m) ==
    AndThen(AndThen(read_tag_line(m), usize_try_from),
        LAMBDA m1, tag_line :
            LET dictionary ==
                    compression_header.preservation_map.tag_ids_dictionary
            IN  IF tag_line >= Len(dictionary)
                THEN Err(m1, "InvalidData", "invalid tag line", "", 0)
                ELSE read_tags(m1, dictionary[tag_line + 1], << >>))

read_number_of_read_features(m) ==
    decode_optional(m, "NumberOfReadFeatures", decode_itf8)

\* feature::Code::try_from(char): the twelve feature codes.
FeatureCodes ==
    [ b |-> 98, q |-> 113, B |-> 66, X |-> 88, I |-> 73, D |-> 68,
      i |-> 105, Q |-> 81, N |-> 78, S |-> 83, P |-> 80, H |-> 72 ]

feature_code_try_from(m, id) ==
    IF \E c \in DOMAIN FeatureCodes : FeatureCodes[c] = id
    THEN Ok(m, CHOOSE c \in DOMAIN FeatureCodes : FeatureCodes[c] = id)
    ELSE Err(m, "InvalidData", "invalid feature code", "", 0)

read_feature_code(m) ==
    AndThen(decode_optional(m, "ReadFeaturesCodes", decode_itf8),
        LAMBDA m1, id : feature_code_try_from(m1, as_u8(id)))

read_feature_position(m) == decode_optional(m, "InReadPositions", decode_itf8)

read_stretches_of_bases(m) == decode_optional_byte_array(m, "StretchesOfBases")

read_stretches_of_quality_scores(m) ==
    decode_optional_byte_array(m, "StretchesOfQualityScores")

read_base(m) == decode_optional(m, "Bases", decode_byte)

read_quality_score(m) == decode_optional(m, "QualityScores", decode_byte)

read_base_substitution_code(m) ==
    decode_optional(m, "BaseSubstitutionCodes", decode_byte)

read_insertion(m) == decode_optional_byte_array(m, "Insertion")

read_deletion_length(m) == decode_optional(m, "DeletionLengths", decode_itf8)

read_reference_skip_length(m) ==
    decode_optional(m, "ReferenceSkipLength", decode_itf8)

read_soft_clip(m) == decode_optional_byte_array(m, "SoftClip")

read_padding(m) == decode_optional(m, "Padding", decode_itf8)

read_hard_clip(m) == decode_optional(m, "HardClip", decode_itf8)

\* The payload of a feature, by code.
read_feature_value(m, code) ==
    CASE code = "b" -> read_stretches_of_bases(m)
      [] code = "q" -> read_stretches_of_quality_scores(m)
      [] code = "B" ->
            AndThen(read_base(m),
                LAMBDA m1, base :
                    MapOk(read_quality_score(m1),
                          LAMBDA score : << base, score >>))
      [] code = "X" -> read_base_substitution_code(m)
      [] code = "I" -> read_insertion(m)
      [] code = "D" -> read_deletion_length(m)
      [] code = "i" -> read_base(m)
      [] code = "Q" -> read_quality_score(m)
      [] code = "N" -> read_reference_skip_length(m)
      [] code = "S" -> read_soft_clip(m)
      [] code = "P" -> read_padding(m)
      [] code = "H" -> read_hard_clip(m)

read_feature(m, prev_position) ==
    AndThen(read_feature_code(m),
        LAMBDA m1, code :
    AndThen(read_feature_position(m1),
        LAMBDA m2, delta :
    AndThen(add_i32(m2, prev_position, delta),
        LAMBDA m3, position :
            MapOk(read_feature_value(m3, code),
                  LAMBDA value : [ code |-> code, position |-> position,
                                   value |-> value ]))))

\* `for _ in 0..n { push(read()) }` over a byte data series.
RECURSIVE read_bytes(_, _, _, _)
read_bytes(m, Read(_), n, acc) ==
    IF n <= 0 THEN Ok(m, acc)
    ELSE AndThen(Read(m),
             LAMBDA m1, byte : read_bytes(m1, Read, n - 1, Append(acc, byte)))

\* The feature loop of read_mapped_read.
RECURSIVE read_features(_, _, _, _)
read_features(m, n, prev_position, features) ==
    IF n <= 0 THEN Ok(m, features)
    ELSE AndThen(read_feature(m, prev_position),
             LAMBDA m1, feature :
                 read_features(m1, n - 1, feature.position,
                               Append(features, feature)))

read_mapping_quality(m) ==
    AndThen(AndThen(decode_optional(m, "MappingQualities", decode_itf8),
                    u8_try_from),
        LAMBDA m1, n : IF n = MISSING THEN Ok(m1, None) ELSE Ok(m1, Some(n)))

\* The quality scores both kinds of read end with.
read_quality_scores(m, record, flags, read_length) ==
    IF HasBit(flags, QUALITY_SCORES_STORED_AS_ARRAY)
    THEN MapOk(read_bytes(m, read_quality_score, read_length, << >>),
               LAMBDA scores : [record EXCEPT !.quality_scores = scores])
    ELSE Ok(m, record)

read_mapped_read(m, record, flags, read_length) ==
    AndThen(read_number_of_read_features(m),
        LAMBDA m1, feature_count :
    AndThen(read_features(m1, feature_count, 0, << >>),
        LAMBDA m2, features :
    AndThen(read_mapping_quality(m2),
        LAMBDA m3, mapping_quality :
            read_quality_scores(m3,
                [record EXCEPT !.features = features,
                               !.mapping_quality = mapping_quality],
                flags, read_length))))

read_unmapped_read(m, record, flags, read_length) ==
    AndThen(read_bytes(m, read_base, read_length, << >>),
        LAMBDA m1, bases :
            read_quality_scores(m1, [record EXCEPT !.bases = bases],
                                flags, read_length))

read_record(m) ==
    AndThen(read_bam_bit_flags([m EXCEPT !.trace = << >>]),
        LAMBDA m1, bam_bit_flags :
    AndThen(read_cram_bit_flags(m1),
        LAMBDA m2, cram_bit_flags :
    AndThen(read_positional_data(m2,
                [DefaultRecord EXCEPT !.bam_bit_flags = bam_bit_flags,
                                      !.flags = cram_bit_flags]),
        LAMBDA m3, rec3 :
    AndThen(read_read_names(m3, rec3),
        LAMBDA m4, rec4 :
    AndThen(read_mate_data(m4, rec4, bam_bit_flags, cram_bit_flags),
        LAMBDA m5, rec5 :
    AndThen(read_tag_data(m5),
        LAMBDA m6, tags :
    AndThen(IF HasBit(bam_bit_flags, UNMAPPED)
            THEN read_unmapped_read(m6, [rec5 EXCEPT !.tags = tags],
                                    cram_bit_flags, rec5.read_length)
            ELSE read_mapped_read(m6, [rec5 EXCEPT !.tags = tags],
                                  cram_bit_flags, rec5.read_length),
        LAMBDA m7, record :
            Ok([m7 EXCEPT !.prev_alignment_start = record.alignment_start],
               record))))))))

\* ------------------------------------------------------------------------
\* Compression headers and slices the reader is run on
\* ------------------------------------------------------------------------

\* DataSeries, by the function that decodes them.
IntSeries ==
    << "BamBitFlags", "CramBitFlags", "ReferenceId", "ReadLengths",
       "InSeqPositions", "ReadGroups", "NextMateBitFlags",
       "NextFragmentReferenceSequenceId", "NextMateAlignmentStart",
       "TemplateSize", "DistanceToNextFragment", "TagIds",
       "NumberOfReadFeatures", "ReadFeaturesCodes", "InReadPositions",
       "DeletionLengths", "ReferenceSkipLength", "Padding", "HardClip",
       "MappingQualities" >>

ByteSeries == << "Bases", "QualityScores", "BaseSubstitutionCodes" >>

ArraySeries ==
    << "ReadNames", "StretchesOfBases", "StretchesOfQualityScores",
       "Insertion", "SoftClip" >>

AllSeries == IntSeries \o ByteSeries \o ArraySeries

Range(seq) == { seq[k] : k \in 1 .. Len(seq) }

\* The data series whose encoding accessor returns no Option.
RequiredSeries ==
    { "BamBitFlags", "CramBitFlags", "ReadLengths", "InSeqPositions",
      "ReadGroups", "TagIds" }

\* The block content id of the external block of a data series.
BlockOf(series) == CHOOSE k \in 1 .. Len(AllSeries) : AllSeries[k] = series

\* Tag keys: an id and a value type.
TagKey(id) == [ id |-> id, ty |-> "C" ]

\* The block content id of the external block of a tag.
TagBlockOf(id) == 100 + id

\* The tag ids dictionary: tag line 0 has no tags, 1 has one, 2 has two.
TagIdsDictionary ==
    << << >>, << TagKey(1) >>, << TagKey(2), TagKey(1) >> >>

\* The encoding a data series has unless the header is varied.
BaseEncoding(series) ==
    IF series \in Range(ArraySeries)
    THEN ByteArrayStop(0, BlockOf(series))
    ELSE External(BlockOf(series))

\* One change made to the base header: to a data series, or to tag 2.
\*   Missing      the encoding map has no encoding for the series
\*   NoBlock      the slice has no block with the encoding's content id
\*   Unsupported  an encoding the decode function has no arm for
\*   NoLength     External for a byte array read without a length
\*   Const        Huffman with a single symbol
\*   Beta, Huffman, Len   other supported encodings
\*   NoTag, NoTagBlock    tag 2 has no encoding, or no block
Variations ==
    { << "None", "" >> }
    \cup { << "Missing", x >> : x \in Range(AllSeries) \ RequiredSeries }
    \cup { << "NoBlock", x >> :
             x \in { "BamBitFlags", "ReferenceId", "ReadNames", "TagIds",
                     "NextMateBitFlags", "DistanceToNextFragment", "Bases",
                     "QualityScores", "MappingQualities", "SoftClip" } }
    \cup { << "Unsupported", x >> :
             x \in { "BamBitFlags", "InSeqPositions", "TemplateSize",
                     "Bases", "QualityScores", "ReadNames", "Insertion" } }
    \cup { << "NoLength", x >> : x \in { "ReadNames", "StretchesOfBases" } }
    \cup { << "Const", x >> : x \in { "ReadGroups", "QualityScores" } }
    \cup { << "Beta", x >> : x \in { "ReadLengths", "Bases" } }
    \cup { << "Huffman", x >> : x \in { "CramBitFlags" } }
    \cup { << "Len", x >> : x \in { "ReadNames", "SoftClip" } }
    \cup { << "NoTag", "" >>, << "NoTagBlock", "" >>, << "TagLen", "" >>,
           << "TagUnsupported", "" >> }

VariedEncoding(var, series) ==
    IF var[2] # series THEN Some(BaseEncoding(series))
    ELSE CASE var[1] = "Missing" -> None
           [] var[1] = "Unsupported" ->
                 IF series \in Range(ArraySeries)
                 THEN Some(Beta(0, 8))
                 ELSE IF series = "TemplateSize"
                 THEN Some(Gamma(1))
                 ELSE IF series = "Bases"
                 THEN Some(ByteArrayLen(External(BlockOf(series)),
                                        External(BlockOf(series))))
                 ELSE Some(ByteArrayStop(0, BlockOf(series)))
           [] var[1] = "NoLength" -> Some(External(BlockOf(series)))
           [] var[1] = "Const" -> Some(Huffman(<< 300 >>, << 0 >>))
           [] var[1] = "Beta" -> Some(Beta(1, 7))
           [] var[1] = "Huffman" -> Some(Huffman(<< 0, 1, 2, 4 >>,
                                                 << 1, 3, 3, 2 >>))
           [] var[1] = "Len" ->
                 Some(ByteArrayLen(External(BlockOf(series)),
                                   External(BlockOf(series))))
           [] OTHER -> Some(BaseEncoding(series))

VariedTagEncodings(var) ==
    LET base == [ id \in {1, 2} |-> ByteArrayStop(0, TagBlockOf(id)) ]
    IN  CASE var[1] = "NoTag" -> [ id \in {1} |-> base[id] ]
          [] var[1] = "TagLen" ->
                [base EXCEPT ![2] = ByteArrayLen(External(TagBlockOf(2)),
                                                 External(TagBlockOf(2)))]
          [] var[1] = "TagUnsupported" -> [base EXCEPT ![2] = Beta(0, 8)]
          [] OTHER -> base

\* The content ids of the external blocks of the slice.
VariedBlocks(var) ==
    ({ BlockOf(x) : x \in Range(AllSeries) } \cup { TagBlockOf(1) }
     \cup (IF var[1] = "NoTagBlock" THEN {} ELSE { TagBlockOf(2) }))
    \ (IF var[1] = "NoBlock" THEN { BlockOf(var[2]) } ELSE {})

Header(var, read_names_included, ap_data_series_delta) ==
    [ encodings |-> [ x \in Range(AllSeries) |-> VariedEncoding(var, x) ],
      tag_encoding_map |-> VariedTagEncodings(var),
      preservation_map |->
          [ read_names_included |-> read_names_included,
            ap_data_series_delta |-> ap_data_series_delta,
            tag_ids_dictionary |-> TagIdsDictionary ] ]

\* Reader::new over streams with nothing in them yet.
NewReader(blocks, initial_alignment_start) ==
    [ core |-> << >>,
      ext |-> [ id \in blocks |-> << >> ],
      prev_alignment_start |-> initial_alignment_start,
      trace |-> << >> ]

\* ------------------------------------------------------------------------
\* The bytes and bits of one record in the streams
\* ------------------------------------------------------------------------

\* writer::num::write_itf8: the ITF8 bytes of an i32.
encode_itf8(n) ==
    IF n >= 0 /\ n < 128 THEN << n >>
    ELSE IF n >= 0 /\ n < 16384 THEN << 128 + (n \div 256), n % 256 >>
    ELSE IF n >= 0 /\ n < 2097152
    THEN << 192 + (n \div 65536), (n \div 256) % 256, n % 256 >>
    ELSE IF n >= 0 /\ n < 268435456
    THEN << 224 + (n \div 16777216), (n \div 65536) % 256,
            (n \div 256) % 256, n % 256 >>
    ELSE << 240 + ((n \div 268435456) % 16), (n \div 1048576) % 256,
            (n \div 4096) % 256, (n \div 16) % 256, n % 16 >>

\* The `len` bits of n, most significant first.
RECURSIVE Bits(_, _)
Bits(n, len) ==
    IF len = 0 THEN << >> ELSE Append(Bits(n \div 2, len - 1), n % 2)

\* The streams after a value was written with an encoding; an encoding
\* that cannot hold the value writes nothing.
RECURSIVE Write(_, _, _, _)
Write(m, encoding, shape, v) ==
    CASE encoding.tag = "External" ->
            IF encoding.id \notin DOMAIN m.ext THEN m
            ELSE [m EXCEPT !.ext[encoding.id] =
                     @ \o (IF shape = "int" THEN encode_itf8(v)
                           ELSE IF shape = "byte" THEN << v >> ELSE v)]
      [] encoding.tag = "Huffman" /\ shape # "array" ->
            IF Len(encoding.alphabet) = 1
               \/ v \notin Range(encoding.alphabet)
            THEN m
            ELSE LET k == CHOOSE x \in 1 .. Len(encoding.alphabet) :
                              encoding.alphabet[x] = v
                 IN  [m EXCEPT !.core = @ \o
                         Bits(HuffmanCode(encoding.bit_lens,
                                          HuffmanRank(encoding.bit_lens, k)),
                              encoding.bit_lens[k])]
      [] encoding.tag = "Beta" /\ shape # "array" ->
            IF v + encoding.offset < 0
               \/ v + encoding.offset >= Pow2(encoding.len)
            THEN m
            ELSE [m EXCEPT !.core =
                     @ \o Bits(v + encoding.offset, encoding.len)]
      [] encoding.tag = "ByteArrayLen" /\ shape = "array" ->
            Write(Write(m, encoding.len_encoding, "int", Len(v)),
                  encoding.value_encoding, "array", v)
      [] encoding.tag = "ByteArrayStop" /\ shape = "array" ->
            IF encoding.id \notin DOMAIN m.ext THEN m
            ELSE [m EXCEPT !.ext[encoding.id] =
                     @ \o v \o << encoding.stop_byte >>]
      [] OTHER -> m

ShapeOf(series) ==
    IF series \in Range(ArraySeries) THEN "array"
    ELSE IF series \in Range(ByteSeries) THEN "byte" ELSE "int"

\* One value to write: the data series, a tag id (0 for none), the value.
Item(series, v) == [ series |-> series, key |-> 0, v |-> v ]

\* The items of one feature: its code, position delta and payload.
FeatureItems(f) ==
    << Item("ReadFeaturesCodes", f.code), Item("InReadPositions", f.delta) >>
    \o (CASE f.code % 256 = FeatureCodes.b -> << Item("StretchesOfBases", f.bytes) >>
          [] f.code % 256 = FeatureCodes.q ->
                << Item("StretchesOfQualityScores", f.bytes) >>
          [] f.code % 256 = FeatureCodes.B ->
                << Item("Bases", f.byte), Item("QualityScores", f.n) >>
          [] f.code % 256 = FeatureCodes.X ->
                << Item("BaseSubstitutionCodes", f.byte) >>
          [] f.code % 256 = FeatureCodes.I -> << Item("Insertion", f.bytes) >>
          [] f.code % 256 = FeatureCodes.D -> << Item("DeletionLengths", f.n) >>
          [] f.code % 256 = FeatureCodes.i -> << Item("Bases", f.byte) >>
          [] f.code % 256 = FeatureCodes.Q -> << Item("QualityScores", f.byte) >>
          [] f.code % 256 = FeatureCodes.N ->
                << Item("ReferenceSkipLength", f.n) >>
          [] f.code % 256 = FeatureCodes.S -> << Item("SoftClip", f.bytes) >>
          [] f.code % 256 = FeatureCodes.P -> << Item("Padding", f.n) >>
          [] f.code % 256 = FeatureCodes.H -> << Item("HardClip", f.n) >>
          [] OTHER -> << >>)

RECURSIVE Flatten(_)
Flatten(seqs) == IF seqs = << >> THEN << >> ELSE Head(seqs) \o Flatten(Tail(seqs))

\* The values of one record, in the layout of a CRAM record: what a writer
\* puts into the streams for the record described by p.
RecordItems(p) ==
    LET pm == compression_header.preservation_map
        detached == p.cram >= 0 /\ HasBit(p.cram, DETACHED)
        downstream == p.cram >= 0 /\ HasBit(p.cram, HAS_MATE_DOWNSTREAM)
        unmapped == p.bam >= 0 /\ HasBit(p.bam, UNMAPPED)
        scores == IF p.cram >= 0 /\ HasBit(p.cram, QUALITY_SCORES_STORED_AS_ARRAY)
                  THEN [ k \in 1 .. p.len |-> Item("QualityScores", 40 + k) ]
                  ELSE << >>
        keys == IF p.tag_line >= 0 /\ p.tag_line < Len(pm.tag_ids_dictionary)
                THEN pm.tag_ids_dictionary[p.tag_line + 1]
                ELSE << >>
    IN  << Item("BamBitFlags", p.bam), Item("CramBitFlags", p.cram) >>
        \o (IF reference_sequence_id = MANY
            THEN << Item("ReferenceId", p.ref) >> ELSE << >>)
        \o << Item("ReadLengths", p.len), Item("InSeqPositions", p.start),
              Item("ReadGroups", p.rg) >>
        \o (IF pm.read_names_included
            THEN << Item("ReadNames", p.name) >> ELSE << >>)
        \o (IF detached
            THEN << Item("NextMateBitFlags", p.mate_flags) >>
                 \o (IF ~pm.read_names_included
                     THEN << Item("ReadNames", p.name) >> ELSE << >>)
                 \o << Item("NextFragmentReferenceSequenceId", p.mate_ref),
                       Item("NextMateAlignmentStart", p.mate_start),
                       Item("TemplateSize", p.tsize) >>
            ELSE IF downstream
            THEN << Item("DistanceToNextFragment", p.dist) >>
            ELSE << >>)
        \o << Item("TagIds", p.tag_line) >>
        \o [ k \in 1 .. Len(keys) |->
               [ series |-> "Tag", key |-> keys[k].id, v |-> << 16 + keys[k].id >> ] ]
        \o (IF unmapped
            THEN [ k \in 1 .. p.len |-> Item("Bases", 64 + k) ]
            ELSE << Item("NumberOfReadFeatures",
                         IF p.feature_count = None THEN Len(p.features)
                         ELSE p.feature_count[1]) >>
                 \o Flatten([ k \in 1 .. Len(p.features) |->
                                FeatureItems(p.features[k]) ])
                 \o << Item("MappingQualities", p.mq) >>)
        \o scores

RECURSIVE WriteItems(_, _)
WriteItems(m, items) ==
    IF items = << >> THEN m
    ELSE LET it == Head(items)
             m1 == IF it.series = "Tag"
                   THEN IF it.key \in DOMAIN compression_header.tag_encoding_map
                        THEN Write(m, compression_header.tag_encoding_map[it.key],
                                   "array", it.v)
                        ELSE m
                   ELSE IF encoding_of(it.series) = None THEN m
                   ELSE Write(m, encoding_of(it.series)[1],
                              ShapeOf(it.series), it.v)
         IN  WriteItems(m1, Tail(items))

\* The record values the streams are filled with.
BasePlan ==
    [ bam |-> 0, cram |-> 0, ref |-> 1, len |-> 2, start |-> 3, rg |-> 0,
      name |-> << 114, 49 >>, mate_flags |-> 0, mate_ref |-> 1,
      mate_start |-> 9, tsize |-> 7, dist |-> 1, tag_line |-> 0,
      features |-> << >>, feature_count |-> None, mq |-> 30 ]

Feat(code, delta) ==
    [ code |-> FeatureCodes[code], delta |-> delta, bytes |-> << 71, 84 >>,
      byte |-> 67, n |-> 3 ]

Plans ==
    { [BasePlan EXCEPT !.start = x] : x \in { -9, 0, 3, I32_MAX } }
    \cup { [BasePlan EXCEPT !.bam = UNMAPPED, !.cram = x, !.len = y] :
             x \in { 0, QUALITY_SCORES_STORED_AS_ARRAY }, y \in { 0, 2 } }
    \cup { [BasePlan EXCEPT !.cram = x, !.mate_flags = y] :
             x \in { QUALITY_SCORES_STORED_AS_ARRAY, DETACHED,
                     HAS_MATE_DOWNSTREAM, DETACHED + HAS_MATE_DOWNSTREAM },
             y \in { 0, 3 } }
    \cup { [BasePlan EXCEPT !.tag_line = x] : x \in { -1, 1, 2, 3 } }
    \cup { [BasePlan EXCEPT !.features = x] :
             x \in { << Feat("X", 1), Feat("D", 2), Feat("B", 0) >>,
                     << Feat("b", 2), Feat("q", 0), Feat("I", 1),
                        Feat("i", 1) >>,
                     << Feat("Q", 1), Feat("N", 1), Feat("S", 1),
                        Feat("P", 0), Feat("H", 1) >>,
                     << [Feat("X", 1) EXCEPT !.code = 0] >>,
                     << [Feat("X", 1) EXCEPT !.code = 256 + 88] >>,
                     << Feat("X", I32_MAX), Feat("X", 1) >> } }
    \cup { [BasePlan EXCEPT !.bam = x] : x \in { -1, 65536 } }
    \cup { [BasePlan EXCEPT !.cram = x] : x \in { -1, 256 } }
    \cup { [BasePlan EXCEPT !.len = -1] }
    \cup { [BasePlan EXCEPT !.mq = x] : x \in { -1, MISSING, 256 } }
    \cup { [BasePlan EXCEPT !.cram = DETACHED, !.mate_flags = x] :
             x \in { -1, 256 } }
    \cup { [BasePlan EXCEPT !.cram = DETACHED, !.mate_start = x] :
             x \in { -3, 0 } }
    \cup { [BasePlan EXCEPT !.feature_count = Some(-1)] }
    \cup { [BasePlan EXCEPT !.bam = MATE_UNMAPPED, !.cram = DETACHED,
                            !.mate_flags = ON_NEGATIVE_STRAND] }
    \cup { [BasePlan EXCEPT !.bam = x,
                            !.cram = DETACHED + QUALITY_SCORES_STORED_AS_ARRAY,
                            !.mate_flags = 1, !.tag_line = 2,
                            !.features = << Feat("S", 0), Feat("B", 1) >>] :
             x \in { 0, UNMAPPED } }

\* The largest number of records read from one slice.
MaxCalls == 2

\* ------------------------------------------------------------------------
\* slice.rs: Slice::records over reader::record::Reader
\* ------------------------------------------------------------------------

\* The reader is built over the slice's blocks (slice.rs:73-92).
\* The value the trace holds for the (first) decode of a data series.
DecodedValue(trace, series) ==
    trace[CHOOSE k \in 1 .. Len(trace) : trace[k].series = series].v

\* No read_record call was made yet.
NoResult == [Ok(<< >>, << >>) EXCEPT !.st = "none"]

InitReader ==
    /\ \E var \in Variations :
       \E flags \in { << MANY, TRUE, TRUE, Some(5), 1 >>,
                      << 1, FALSE, FALSE, None, 9 >>,
                      << MANY, FALSE, TRUE, None, 1 >>,
                      << -1, TRUE, FALSE, Some(5), 9 >> } :
          /\ var[1] # "None" => flags[1] = MANY /\ flags[3]
          /\ compression_header = Header(var, flags[2], flags[3])
          /\ reference_sequence_id = flags[1]
          /\ reader = NewReader(VariedBlocks(var), flags[4])
          /\ record_count \in IF var[1] = "None" THEN { 0, MaxCalls } ELSE { 1 }
          /\ record_counter = flags[5]
          /\ overflow_checks \in IF var[1] = "None" THEN BOOLEAN ELSE { TRUE }
    /\ returned = IF record_count = 0 THEN Ok(<< >>, << >>) ELSE NoResult
    /\ result = NoResult
    /\ calls = 0
    /\ starts = unwrap_or_default(reader.prev_alignment_start)
    /\ fed = << >>
    /\ CallIdle
    /\ OtherIdle
    /\ MatrixIdle
    /\ records = << >>
    /\ input = << >>
    /\ mate_indices = << >>
    /\ i = 0
    /\ j = 0
    /\ rm_pc = "idle"
    /\ walks = << >>
    /\ reached = {}

\* One iteration of the loop of Slice::records (slice.rs:100-104): the
\* next record of the streams, whatever it holds, is read, given its id and
\* pushed; the first error is returned, and so is the list after the last
\* record (slice.rs:106).
ReadRecord ==
    /\ calls < record_count
    /\ result.st \in { "none", "ok" }
    /\ \E p \in Plans :
       \E items \in { RecordItems(p) } :
       \E r \in { read_record(WriteItems(reader, items)) } :
              /\ result' = [r EXCEPT !.m = << >>]
              /\ reader' = r.m
              /\ records' = IF r.st = "ok"
                            THEN records @@
                                 (calls :> [r.v EXCEPT
                                              !.id = record_counter + calls])
                            ELSE records
              /\ returned' = IF r.st # "ok"
                             THEN [r EXCEPT !.m = << >>]
                             ELSE IF calls + 1 = record_count
                             THEN Ok(<< >>, records')
                             ELSE NoResult
              /\ starts' = IF r.st = "ok"
                              /\ compression_header.preservation_map
                                     .ap_data_series_delta
                           THEN starts + DecodedValue(r.m.trace,
                                                      "InSeqPositions")
                           ELSE starts
              /\ fed' = [ k \in 1 .. Len(items) |->
                            [ series |-> items[k].series,
                              key |-> items[k].key ] ]
    /\ calls' = calls + 1
    /\ UNCHANGED << compression_header, reference_sequence_id, record_count,
                    record_counter, overflow_checks, input, mate_indices, i, j,
                    rm_pc, walks, reached >>
    /\ UNCHANGED call_vars
    /\ UNCHANGED matrix_vars
    /\ UNCHANGED other_vars

NextReader == ReadRecord

SpecReader == InitReader /\ [][NextReader]_vars

\* ------------------------------------------------------------------------
\* reader/record.rs: the encoding evaluator on its own
\* ------------------------------------------------------------------------

\* resolve_mates is not running.
MatesIdle ==
    /\ records = << >>
    /\ input = << >>
    /\ mate_indices = << >>
    /\ i = 0
    /\ j = 0
    /\ rm_pc = "idle"
    /\ walks = << >>
    /\ reached = {}

\* The largest number of bytes drawn for an external stream.
MaxBytes == 3

\* The sequences over S of length n at most.
RECURSIVE SeqsUpTo(_, _)
SeqsUpTo(S, n) ==
    IF n = 0 THEN { << >> }
    ELSE LET shorter == SeqsUpTo(S, n - 1)
         IN  shorter \cup { Append(q, x) :
                              q \in { t \in shorter : Len(t) = n - 1 },
                              x \in S }

\* Bytes of the external streams: the stop byte, a length, a letter, and
\* the first byte of a three byte ITF8 value.
StreamBytes == { 0, 2, 110, 200 }

\* What is left of external stream 1: any short stream, the two streams of
\* test_decode_byte_array, and a length, its value and two more bytes.
ExternalData ==
    SeqsUpTo(StreamBytes, MaxBytes)
    \cup { << 4, 110, 100, 108, 115 >>, << 110, 100, 108, 115, 0 >>,
           << 2, 110, 100, 0, 200 >> }

\* What is left of the core stream, as bits.
CoreData == { << >>, << 1, 0, 0 >>, << 0, 1 >>, << 1, 1, 0, 1, 0 >> }

\* Encodings handed to decode_byte and decode_itf8; block 3 is no block of
\* the slice.
ValueEncodings ==
    { External(1), External(3),
      Huffman(<< 78 >>, << 0 >>), Huffman(<< 78 >>, << 3 >>),
      Huffman(<< 334 >>, << 1 >>), Huffman(<< 65, 66, 67 >>, << 1, 2, 2 >>),
      Beta(1, 3), Beta(0, 2), Beta(0 - 300, 3), Beta(5, 2),
      Beta(0 - I32_MAX, 3),
      ByteArrayLen(External(1), External(1)), ByteArrayStop(0, 1) }

\* Encodings handed to decode_byte_array.
ArrayEncodings ==
    { External(1), External(3),
      ByteArrayLen(External(1), External(1)),
      ByteArrayLen(External(2), External(1)),
      ByteArrayLen(Huffman(<< 2 >>, << 0 >>), External(1)),
      ByteArrayLen(Beta(0, 2), External(1)),
      ByteArrayLen(Beta(5, 2), External(1)),
      ByteArrayLen(External(1), ByteArrayStop(0, 1)),
      ByteArrayStop(0, 1), ByteArrayStop(110, 1), ByteArrayStop(0, 3),
      Huffman(<< 78 >>, << 0 >>), Beta(0, 8) }

\* The buffers handed to decode_byte_array: none, or n zeroed bytes.
Buffers == { None, Some(0), Some(2) }

InitDecode ==
    /\ \E core \in CoreData, data \in ExternalData :
          reader = [ core |-> core,
                     ext |-> (1 :> data @@ 2 :> << 2 >>),
                     prev_alignment_start |-> None,
                     trace |-> << >> ]
    /\ overflow_checks \in BOOLEAN
    /\ compression_header = << >>
    /\ reference_sequence_id = -1
    /\ record_count = 0
    /\ record_counter = 0
    /\ returned = << >>
    /\ result = NoResult
    /\ calls = 0
    /\ starts = 0
    /\ fed = << >>
    /\ CallIdle
    /\ OtherIdle
    /\ MatrixIdle
    /\ MatesIdle

\* The call `name`(encoding, core_data_reader, external_data_readers[, buf])
\* returned r.
Returned(name, encoding, buf, r) ==
    /\ result.st = "none"
    /\ pre' = reader
    /\ call' = [ name |-> name, encoding |-> encoding, buf |-> buf ]
    /\ result' = [r EXCEPT !.m = << >>]
    /\ reader' = r.m
    /\ calls' = calls + 1
    /\ UNCHANGED << compression_header, reference_sequence_id, record_count,
                    record_counter, returned, starts, fed >>
    /\ UNCHANGED mates_vars
    /\ UNCHANGED matrix_vars
    /\ UNCHANGED other_vars

DecodeByte ==
    \E encoding \in ValueEncodings :
        Returned("decode_byte", encoding, None, decode_byte(reader, encoding))

DecodeItf8 ==
    \E encoding \in ValueEncodings :
        Returned("decode_itf8", encoding, None, decode_itf8(reader, encoding))

DecodeByteArray ==
    \E encoding \in ArrayEncodings, buf \in Buffers :
        Returned("decode_byte_array", encoding, buf,
                 decode_byte_array(reader, encoding, buf))

NextDecode == DecodeByte \/ DecodeItf8 \/ DecodeByteArray

SpecDecode == InitDecode /\ [][NextDecode]_vars

\* ------------------------------------------------------------------------
\* reader/num/ltf8.rs
\* ------------------------------------------------------------------------

\* An i64 is the sequence of its 8 bytes, most significant first.

\* The bits of a byte, most significant first.
ByteBits(b) == [ k \in 1 .. 8 |-> (b \div Pow2(8 - k)) % 2 ]

\* `a & b` on bytes.
ByteAnd(a, b) ==
    BitsValue([ k \in 1 .. 8 |-> ByteBits(a)[k] * ByteBits(b)[k] ])

\* `a | b` on bytes.
ByteOr(a, b) ==
    BitsValue([ k \in 1 .. 8 |->
                  IF ByteBits(a)[k] + ByteBits(b)[k] > 0 THEN 1 ELSE 0 ])

\* i64::from(u8)
i64_from_u8(b) == << 0, 0, 0, 0, 0, 0, 0, b >>

\* `x & mask` on i64, for a mask of one byte.
i64_and(x, mask) == [ k \in 1 .. 8 |-> IF k = 8 THEN ByteAnd(x[8], mask) ELSE 0 ]

\* `x << n` on i64, for n a multiple of 8.
i64_shl(x, n) ==
    [ k \in 1 .. 8 |-> IF k + n \div 8 <= 8 THEN x[k + n \div 8] ELSE 0 ]

\* `x | y` on i64.
i64_or(x, y) == [ k \in 1 .. 8 |-> ByteOr(x[k], y[k]) ]

\* read_u8_as_i64 through i8: a byte of 0x80 and more extends its sign.
read_i8_as_i64(m, id) ==
    MapOk(read_u8(m, id),
          LAMBDA b : IF b >= 128
                     THEN << 255, 255, 255, 255, 255, 255, 255, b >>
                     ELSE i64_from_u8(b))

\* read_u8_as_i64 on the external reader `id`.
read_u8_as_i64(m, id) == MapOk(read_u8(m, id), i64_from_u8)

\* read_u8_as_i64 n times: b1 .. bn.
RECURSIVE read_following(_, _, _, _)
read_following(m, id, n, acc) ==
    IF n = 0 THEN Ok(m, acc)
    ELSE AndThen(read_u8_as_i64(m, id),
             LAMBDA m1, b : read_following(m1, id, n - 1, Append(acc, b)))

\* The branch of read_ltf8 a first byte takes, as the number of bytes the
\* branch reads: the tests `b0 & 0x80 == 0`, `b0 & 0x40 == 0`, ... in turn.
RECURSIVE ltf8_branch(_, _)
ltf8_branch(b0, k) ==
    IF k = 8 THEN 8
    ELSE IF ByteAnd(b0, Pow2(7 - k)) = 0 THEN k
    ELSE ltf8_branch(b0, k + 1)

\* The branch with the last test left out: 0xff reads 7 bytes as 0xfe does.
ltf8_following_to_seven(b0) ==
    IF ltf8_branch(b0, 0) = 8 THEN 7 ELSE ltf8_branch(b0, 0)

ltf8_following(b0) == ltf8_branch(b0, 0)

\* `b[1] << 8 * (n - 1) | ... | b[n - 1] << 8 | b[n]`
RECURSIVE i64_join(_)
i64_join(b) ==
    IF b = << >> THEN i64_from_u8(0)
    ELSE i64_or(i64_shl(Head(b), 8 * (Len(b) - 1)), i64_join(Tail(b)))

\* The value of the branch that read the k bytes b after the first byte.
ltf8_value(b0, k, b) ==
    IF k = 0 THEN b0
    ELSE IF k = 7 THEN i64_join(b)
    ELSE i64_join(<< i64_and(b0, Pow2(8 - k) - 1) >> \o b)

\* ReadBytesExt::read_i64::<BigEndian> on the external reader `id`.
read_i64_be(m, id) == read_exact(m, id, 8)

read_ltf8(m, id) ==
    AndThen(read_u8_as_i64(m, id),
        LAMBDA m1, b0 :
            IF ltf8_following(b0[8]) = 8
            THEN read_i64_be(m1, id)
            ELSE MapOk(read_following(m1, id, ltf8_following(b0[8]), << >>),
                       LAMBDA b : ltf8_value(b0, ltf8_following(b0[8]), b)))

\* The largest number of bytes drawn after the first byte read_ltf8 reads.
MaxLtf8Bytes == 9

\* Bytes after the first: those of test_read_ltf8, all ones, all zeros (a
\* value in more bytes than it needs), and high bits only.
Ltf8Tails ==
    { [ k \in 1 .. MaxLtf8Bytes |->
          << 85, 170, 204, 51, 227, 28, 240, 15 >>[((k - 1) % 8) + 1] ],
      [ k \in 1 .. MaxLtf8Bytes |-> IF k = 8 THEN 86 ELSE 255 ],
      [ k \in 1 .. MaxLtf8Bytes |-> 0 ],
      [ k \in 1 .. MaxLtf8Bytes |-> 128 ] }

\* The streams read_ltf8 is applied to: every first byte, followed by up to
\* MaxLtf8Bytes bytes; and the empty stream.
Ltf8Data ==
    { << >> }
    \cup { << b0 >> \o TakeN(tail, n) :
             b0 \in 0 .. 255, tail \in Ltf8Tails, n \in 0 .. MaxLtf8Bytes }

InitLtf8 ==
    /\ \E data \in Ltf8Data :
          reader = [ core |-> << >>,
                     ext |-> (1 :> data),
                     prev_alignment_start |-> None,
                     trace |-> << >> ]
    /\ overflow_checks = TRUE
    /\ compression_header = << >>
    /\ reference_sequence_id = -1
    /\ record_count = 0
    /\ record_counter = 0
    /\ returned = << >>
    /\ result = NoResult
    /\ calls = 0
    /\ starts = 0
    /\ fed = << >>
    /\ CallIdle
    /\ OtherIdle
    /\ MatrixIdle
    /\ MatesIdle

ReadLtf8 == Returned("read_ltf8", << >>, None, read_ltf8(reader, 1))

NextLtf8 == ReadLtf8

SpecLtf8 == InitLtf8 /\ [][NextLtf8]_vars

\* ------------------------------------------------------------------------
\* preservation_map/substitution_matrix.rs
\* ------------------------------------------------------------------------

\* substitution_matrix::Base, in the order of its variants.
Bases == << "A", "C", "G", "T", "N" >>

\* `base as usize`, and the order of the bases (derived Ord).
BaseIndex(base) ==
    CASE base = "A" -> 0
      [] base = "C" -> 1
      [] base = "G" -> 2
      [] base = "T" -> 3
      [] base = "N" -> 4

\* A row of Substitutions, [Base; 4], indexed from 0.
Row(b0, b1, b2, b3) == (0 :> b0) @@ (1 :> b1) @@ (2 :> b2) @@ (3 :> b3)

\* SubstitutionMatrix::default().substitutions
SubstitutionMatrix_default ==
    (0 :> Row("C", "G", "T", "N"))
    @@ (1 :> Row("A", "G", "T", "N"))
    @@ (2 :> Row("A", "C", "T", "N"))
    @@ (3 :> Row("A", "C", "G", "N"))
    @@ (4 :> Row("A", "C", "G", "T"))

\* set_substitutions with the code pairs taken from the low end first.
set_substitutions_low_first(reference_base, codes, read_bases, substitutions) ==
    LET r  == BaseIndex(reference_base)
        s1 == [substitutions[r] EXCEPT ![codes % 4] = read_bases[1]]
        s2 == [s1 EXCEPT ![(codes \div 4) % 4] = read_bases[2]]
        s3 == [s2 EXCEPT ![(codes \div 16) % 4] = read_bases[3]]
        s4 == [s3 EXCEPT ![(codes \div 64) % 4] = read_bases[4]]
    IN  [substitutions EXCEPT ![r] = s4]

\* set_substitutions: the four assignments to the row of the reference
\* base, in order.
set_substitutions(reference_base, codes, read_bases, substitutions) ==
    LET r  == BaseIndex(reference_base)
        s1 == [substitutions[r] EXCEPT ![(codes \div 64) % 4] = read_bases[1]]
        s2 == [s1 EXCEPT ![(codes \div 16) % 4] = read_bases[2]]
        s3 == [s2 EXCEPT ![(codes \div 4) % 4] = read_bases[3]]
        s4 == [s3 EXCEPT ![codes % 4] = read_bases[4]]
    IN  [substitutions EXCEPT ![r] = s4]

\* SubstitutionMatrix::try_from([u8; 5]): always Ok; the substitutions.
SubstitutionMatrix_try_from(b) ==
    LET m0 == SubstitutionMatrix_default
        m1 == set_substitutions("A", b[1], << "C", "G", "T", "N" >>, m0)
        m2 == set_substitutions("C", b[2], << "A", "G", "T", "N" >>, m1)
        m3 == set_substitutions("G", b[3], << "A", "C", "T", "N" >>, m2)
        m4 == set_substitutions("T", b[4], << "A", "C", "G", "N" >>, m3)
    IN  set_substitutions("N", b[5], << "A", "C", "G", "T" >>, m4)

\* SubstitutionMatrix::get: indexing past the row panics.
SubstitutionMatrix_get(substitutions, reference_base, substitution_code) ==
    IF substitution_code > 3
    THEN Panic(<< >>, "index out of bounds")
    ELSE Ok(<< >>, substitutions[BaseIndex(reference_base)][substitution_code])

\* The row of indices 0 .. 3 ordered by the base of the row at the index,
\* equal bases in index order: `sort_by_key(|p| p.1)`, a stable sort.
RECURSIVE SortedIndices(_, _)
SortedIndices(read_bases, left) ==
    IF left = {} THEN << >>
    ELSE LET first == CHOOSE x \in left : \A y \in left :
                          \/ BaseIndex(read_bases[x]) < BaseIndex(read_bases[y])
                          \/ /\ BaseIndex(read_bases[x]) = BaseIndex(read_bases[y])
                             /\ x <= y
         IN  << first >> \o SortedIndices(read_bases, left \ { first })

\* `*codes <<= 2; *codes |= i as u8` over a list of indices, from `codes`.
RECURSIVE PushCodes(_, _)
PushCodes(codes, indices) ==
    IF indices = << >> THEN codes
    ELSE PushCodes(((codes * 4) % 256) + Head(indices), Tail(indices))

\* The byte of a row with the rank of each entry's base among the entries
\* pushed in index order.
encode_row_by_rank(read_bases) ==
    LET sorted == SortedIndices(read_bases, 0 .. 3)
    IN  PushCodes(0, [ k \in 1 .. 4 |->
                         (CHOOSE x \in 1 .. 4 : sorted[x] = k - 1) - 1 ])

\* The byte of a row: the indices of the row sorted by base, pushed in
\* that order.
encode_row(read_bases) == PushCodes(0, SortedIndices(read_bases, 0 .. 3))

\* <[u8; 5]>::from(&SubstitutionMatrix)
u8_5_from(substitutions) ==
    [ r \in 1 .. 5 |-> encode_row(substitutions[r - 1]) ]

\* The four bases other than each reference base, in the order A, C, G, T,
\* N.
NonReferenceBases ==
    [ r \in 0 .. 4 |-> SelectSeq(Bases, LAMBDA base : base # Bases[r + 1]) ]

\* The largest substitution code asked for.
MaxCode == 4

\* The encoded matrix of test_try_from_u8_slice: 93 1b 6c b1 c6, each byte
\* with four distinct codes.
TestCodes == << 147, 27, 108, 177, 198 >>

\* Other bytes of an encoded matrix: 0x1b (codes 0 1 2 3), 0xe4 (codes
\* 3 2 1 0) and 0x1a (codes 0 1 2 2: the last two equal, code 3 unused).
MatrixBytes == { 27, 228, 26 }

\* The arrays given to try_from.
EncodedMatrices ==
    LET BytesOf(r) == MatrixBytes \cup { TestCodes[r] }
    IN  { << b1, b2, b3, b4, b5 >> :
            b1 \in BytesOf(1), b2 \in BytesOf(2), b3 \in BytesOf(3),
            b4 \in BytesOf(4), b5 \in BytesOf(5) }

\* Rows of a matrix for reference base r: the four other bases in order,
\* rotated, the row of the test's matrix, and a row with a base twice.
RowsOf(r) ==
    LET o == NonReferenceBases[r]
    IN  { Row(o[1], o[2], o[3], o[4]), Row(o[2], o[3], o[4], o[1]),
          SubstitutionMatrix_try_from(TestCodes)[r],
          Row(o[1], o[1], o[2], o[3]) }

\* The matrices given to <[u8; 5]>::from.
Matrices ==
    { (0 :> r0) @@ (1 :> r1) @@ (2 :> r2) @@ (3 :> r3) @@ (4 :> r4) :
        r0 \in RowsOf(0), r1 \in RowsOf(1), r2 \in RowsOf(2),
        r3 \in RowsOf(3), r4 \in RowsOf(4) }

\* A conversion begins with an array of five bytes or with a matrix.
InitMatrix ==
    /\ \/ /\ encoded_substitution_matrix \in EncodedMatrices
          /\ substitution_matrix = << >>
          /\ given = encoded_substitution_matrix
       \/ /\ substitution_matrix \in Matrices
          /\ encoded_substitution_matrix = << >>
          /\ given = substitution_matrix
    /\ converted = << >>
    /\ overflow_checks = FALSE
    /\ MatesIdle
    /\ ReaderIdle
    /\ CallIdle
    /\ OtherIdle

\* The conversions so far ended with `name`.
LastConverted(name) ==
    converted # << >> /\ converted[Len(converted)] = name

\* SubstitutionMatrix::try_from(encoded_substitution_matrix)
TryFrom ==
    /\ encoded_substitution_matrix # << >>
    /\ Len(converted) < 2
    /\ ~LastConverted("try_from")
    /\ substitution_matrix' =
           SubstitutionMatrix_try_from(encoded_substitution_matrix)
    /\ converted' = Append(converted, "try_from")
    /\ call' = [ name |-> "try_from" ]
    /\ result' = Ok(<< >>, << >>)
    /\ UNCHANGED << pre, encoded_substitution_matrix, given >>
    /\ UNCHANGED << compression_header, reference_sequence_id, reader,
                    record_count, record_counter, returned, calls, starts,
                    fed >>
    /\ UNCHANGED mates_vars
    /\ UNCHANGED other_vars

\* <[u8; 5]>::from(&substitution_matrix)
From ==
    /\ substitution_matrix # << >>
    /\ Len(converted) < 2
    /\ ~LastConverted("from")
    /\ encoded_substitution_matrix' = u8_5_from(substitution_matrix)
    /\ converted' = Append(converted, "from")
    /\ call' = [ name |-> "from" ]
    /\ result' = Ok(<< >>, << >>)
    /\ UNCHANGED << pre, substitution_matrix, given >>
    /\ UNCHANGED << compression_header, reference_sequence_id, reader,
                    record_count, record_counter, returned, calls, starts,
                    fed >>
    /\ UNCHANGED mates_vars
    /\ UNCHANGED other_vars

\* substitution_matrix.get(reference_base, substitution_code), on a matrix
\* try_from returned.
Get ==
    /\ LastConverted("try_from")
    /\ \E reference_base \in Range(Bases), substitution_code \in 0 .. MaxCode :
           /\ call' = [ name |-> "get", reference_base |-> reference_base,
                        substitution_code |-> substitution_code ]
           /\ result' = SubstitutionMatrix_get(substitution_matrix,
                                               reference_base,
                                               substitution_code)
    /\ UNCHANGED << pre >>
    /\ UNCHANGED matrix_vars
    /\ UNCHANGED << compression_header, reference_sequence_id, reader,
                    record_count, record_counter, returned, calls, starts,
                    fed >>
    /\ UNCHANGED mates_vars
    /\ UNCHANGED other_vars

NextMatrix == TryFrom \/ From \/ Get

SpecMatrix == InitMatrix /\ [][NextMatrix]_vars

\* ------------------------------------------------------------------------
\* writer.rs: Writer
\* ------------------------------------------------------------------------

\* The largest number of write_record calls.
MaxWrites == 5

\* A data container holding `container_records`, and Container::eof().
DataContainer(container_records) ==
    [ kind |-> "data", records |-> container_records ]

EofContainer == [ kind |-> "eof", records |-> << >> ]

\* Writer::write_container on a stream that takes every write.
write_container(stream, container) == Append(stream, container)

\* Writer::flush: the builder is replaced by a new one, and the container
\* built from the old one is written, with no test that it holds a record.
\* The pair of the stream and the builder after the call.
flush(stream, builder) ==
    << write_container(stream, DataContainer(builder)), << >> >>

\* Writer::try_finish: flush, then the EOF container.
try_finish(stream, builder) ==
    LET flushed == flush(stream, builder)
    IN  << write_container(flushed[1], EofContainer), flushed[2] >>

\* data_container::Builder::add_record: a builder without records takes
\* the record; one with records takes it or answers ContainerFull.
AddRecordAnswers(builder) ==
    IF builder = << >> THEN { "Ok" } ELSE { "Ok", "ContainerFull" }

\* Writer::new(Vec::new(), Vec::new())
InitWriter ==
    /\ inner = << >>
    /\ data_container_builder = << >>
    /\ writer_pc = "open"
    /\ accepted = 0
    /\ overflow_checks = FALSE
    /\ MatesIdle
    /\ ReaderIdle
    /\ CallIdle
    /\ QueryIdle
    /\ MatrixIdle

\* writer.write_record(reference_sequence, record), the record being the
\* (accepted + 1)-th: the loop adds it, after a flush when the builder is
\* full.
WriteRecord ==
    /\ writer_pc = "open"
    /\ accepted < MaxWrites
    /\ \E answer \in AddRecordAnswers(data_container_builder) :
           IF answer = "Ok"
           THEN /\ data_container_builder' =
                       Append(data_container_builder, accepted + 1)
                /\ inner' = inner
           ELSE LET flushed == flush(inner, data_container_builder)
                IN  /\ inner' = flushed[1]
                    /\ data_container_builder' =
                           Append(flushed[2], accepted + 1)
    /\ accepted' = accepted + 1
    /\ UNCHANGED writer_pc
    /\ UNCHANGED << mates_vars, reader_vars, call_vars, matrix_vars,
                    query_vars >>

\* writer.try_finish()
TryFinish ==
    /\ writer_pc = "open"
    /\ LET finished == try_finish(inner, data_container_builder)
       IN  /\ inner' = finished[1]
           /\ data_container_builder' = finished[2]
    /\ writer_pc' = "finished"
    /\ UNCHANGED accepted
    /\ UNCHANGED << mates_vars, reader_vars, call_vars, matrix_vars,
                    query_vars >>

\* drop(writer): `let _ = self.try_finish()`
Drop ==
    /\ writer_pc \in { "open", "finished" }
    /\ LET finished == try_finish(inner, data_container_builder)
       IN  /\ inner' = finished[1]
           /\ data_container_builder' = finished[2]
    /\ writer_pc' = "dropped"
    /\ UNCHANGED accepted
    /\ UNCHANGED << mates_vars, reader_vars, call_vars, matrix_vars,
                    query_vars >>

NextWriter == WriteRecord \/ TryFinish \/ Drop

SpecWriter == InitWriter /\ [][NextWriter]_vars

\* ------------------------------------------------------------------------
\* noodles-vcf reader/query.rs: Query
\* ------------------------------------------------------------------------

\* The largest number of next() calls on one query.
MaxNext == 4

\* The largest number of I/O errors the underlying reader reports.
MaxIoErrors == 1

\* State::Seek, State::Read(chunk_end), State::End
Seek == [ tag |-> "Seek", chunk_end |-> 0 ]

Read(chunk_end) == [ tag |-> "Read", chunk_end |-> chunk_end ]

End == [ tag |-> "End", chunk_end |-> 0 ]

\* A line of the file: a record with its chromosome, position and end
\* (None when record.end() is an error), or a line that is no record.
Line(name, position, end) ==
    [ kind |-> "record", chromosome |-> name, position |-> position,
      end |-> end ]

InvalidLine == [ kind |-> "invalid", chromosome |-> "", position |-> 0,
                 end |-> None ]

\* The files read: the line at virtual position k is lines[k + 1], and
\* reading it leaves the reader at k + 1.
Files ==
    { << Line("sq0", 2, Some(4)), Line("sq0", 5, Some(5)),
         Line("sq1", 6, Some(9)), Line("sq0", 9, Some(12)) >>,
      << Line("sq0", 1, Some(3)), InvalidLine, Line("sq0", 7, None),
         Line("sq0", 8, Some(10)) >> }

\* A chunk of the index: the virtual positions it starts and ends at.
Chunk(start, end) == [ start |-> start, end |-> end ]

ChunkLists ==
    { << >>,
      << Chunk(0, 2) >>,
      << Chunk(0, 2), Chunk(2, 4) >>,
      << Chunk(1, 2), Chunk(3, 6) >>,
      << Chunk(0, 4), Chunk(0, 4) >> }

\* The intervals of a query: Unbounded is None, Included(n) is Some(n).
Intervals == { << None, None >>, << Some(5), None >>, << Some(5), Some(8) >> }

\* Query::new
Query_new(chunk_list, reference_sequence_name, interval) ==
    LET bounds == IF interval = << None, None >> THEN << 1, I32_MAX >>
                  ELSE IF interval[2] = None
                  THEN << interval[1][1], I32_MAX >>
                  ELSE << interval[1][1], interval[2][1] >>
    IN  [ chunks |-> chunk_list,
          reference_sequence_name |-> reference_sequence_name,
          start |-> bounds[1],
          end |-> bounds[2],
          i |-> 0,
          state |-> Seek ]

\* in_interval that compares the starts with the query's end only.
in_interval_start_only(a_start, a_end, b_start, b_end) == a_start <= b_end

in_interval(a_start, a_end, b_start, b_end) ==
    a_start <= b_end /\ b_start <= a_end

\* Query::next_chunk, the seek succeeding or not: the query and the reader
\* after the call, and Ok(Some(chunk_end)), Ok(None) or Err.
next_chunk(q, r, seek_succeeds) ==
    IF q.i >= Len(q.chunks)
    THEN [ q |-> q, r |-> r, st |-> "ok", v |-> None ]
    ELSE LET chunk == q.chunks[q.i + 1]
         IN  IF ~seek_succeeds
             THEN [ q |-> q, r |-> r, st |-> "err", v |-> None ]
             ELSE [ q |-> [q EXCEPT !.i = q.i + 1],
                    r |-> [r EXCEPT !.position = chunk.start],
                    st |-> "ok", v |-> Some(chunk.end) ]

\* Query::read_and_parse_record, the read succeeding or not: the reader
\* after the call, and None at the end of the file, Some(Ok(record)) or
\* Some(Err).
read_and_parse_record(r, read_succeeds) ==
    IF ~read_succeeds
    THEN [ r |-> r, v |-> Some([ st |-> "err", kind |-> "io", record |-> None ]) ]
    ELSE IF r.position >= Len(r.lines)
    THEN [ r |-> r, v |-> None ]
    ELSE LET line == r.lines[r.position + 1]
         IN  [ r |-> [r EXCEPT !.position = r.position + 1],
               v |-> Some(IF line.kind = "record"
                          THEN [ st |-> "ok", kind |-> "", record |-> Some(line) ]
                          ELSE [ st |-> "err", kind |-> "InvalidData",
                                 record |-> None ]) ]

\* The yielded next() returns: None, Some(Ok(record)), Some(Err(e)).
ItemNone == [ st |-> "none", kind |-> "", record |-> None ]

ItemOk(record) == [ st |-> "ok", kind |-> "", record |-> Some(record) ]

ItemErr(kind) == [ st |-> "err", kind |-> kind, record |-> None ]

\* reader.query(...): a query over a file, its chunks and an interval.
InitQuery ==
    /\ \E file \in Files :
       \E chunk_list \in ChunkLists :
       \E name \in { "sq0", "sq1" } :
       \E interval \in Intervals :
          /\ vcf = [ lines |-> file, position |-> 0 ]
          /\ query = Query_new(chunk_list, name, interval)
    /\ yielded = << >>
    /\ seeks = << >>
    /\ io_errors = 0
    /\ overflow_checks = FALSE
    /\ MatesIdle
    /\ ReaderIdle
    /\ CallIdle
    /\ WriterIdle
    /\ MatrixIdle

\* The outcomes of an I/O call: it succeeds, or fails while the reader has
\* errors left to report.
IoOutcomes == IF io_errors < MaxIoErrors THEN BOOLEAN ELSE { TRUE }

\* One turn of the loop of next() in State::Seek: the next chunk is
\* seeked; a seek error is returned.
QuerySeek ==
    /\ query # << >>
    /\ query.state.tag = "Seek"
    /\ Len(yielded) < MaxNext
    /\ \E seek_succeeds \in IoOutcomes :
       \E chunk \in { next_chunk(query, vcf, seek_succeeds) } :
          /\ vcf' = chunk.r
          /\ IF chunk.st = "err"
             THEN /\ query' = chunk.q
                  /\ yielded' = Append(yielded, ItemErr("io"))
                  /\ io_errors' = io_errors + 1
                  /\ UNCHANGED seeks
             ELSE /\ query' = [chunk.q EXCEPT !.state =
                                  IF chunk.v = None THEN End
                                  ELSE Read(chunk.v[1])]
                  /\ seeks' = IF chunk.v = None THEN seeks
                              ELSE Append(seeks, query.i)
                  /\ UNCHANGED << yielded, io_errors >>
    /\ UNCHANGED << mates_vars, reader_vars, call_vars, matrix_vars,
                    writer_vars >>

\* One turn of the loop in State::Read(chunk_end): a line is read; the
\* state goes back to Seek at the end of the chunk or of the file; a record
\* of the region, or an error, is returned.
QueryRead ==
    /\ query # << >>
    /\ query.state.tag = "Read"
    /\ Len(yielded) < MaxNext
    /\ \E read_succeeds \in IoOutcomes :
       \E read \in { read_and_parse_record(vcf, read_succeeds) } :
          /\ vcf' = read.r
          /\ io_errors' = IF read_succeeds THEN io_errors ELSE io_errors + 1
          /\ IF read.v = None
             THEN /\ query' = [query EXCEPT !.state = Seek]
                  /\ UNCHANGED yielded
             ELSE LET result_ == read.v[1]
                      moved == IF read.r.position >= query.state.chunk_end
                               THEN [query EXCEPT !.state = Seek]
                               ELSE query
                  IN  /\ query' = moved
                      /\ IF result_.st = "err"
                         THEN yielded' = Append(yielded, ItemErr(result_.kind))
                         ELSE LET record == result_.record[1]
                              IN  IF record.end = None
                                  THEN yielded' = Append(yielded,
                                                       ItemErr("InvalidData"))
                                  ELSE IF /\ record.chromosome =
                                              query.reference_sequence_name
                                          /\ in_interval(record.position,
                                                         record.end[1],
                                                         query.start, query.end)
                                  THEN yielded' = Append(yielded, ItemOk(record))
                                  ELSE UNCHANGED yielded
    /\ UNCHANGED seeks
    /\ UNCHANGED << mates_vars, reader_vars, call_vars, matrix_vars,
                    writer_vars >>

\* next() in State::End
QueryEnd ==
    /\ query # << >>
    /\ query.state.tag = "End"
    /\ Len(yielded) < MaxNext
    /\ yielded' = Append(yielded, ItemNone)
    /\ UNCHANGED << query, vcf, seeks, io_errors >>
    /\ UNCHANGED << mates_vars, reader_vars, call_vars, matrix_vars,
                    writer_vars >>

NextQuery == QuerySeek \/ QueryRead \/ QueryEnd

SpecQuery == InitQuery /\ [][NextQuery]_vars

\* ------------------------------------------------------------------------
\* Mate resolution: properties
\* ------------------------------------------------------------------------

Downstream(k) == HasBit(input[k].flags, HAS_MATE_DOWNSTREAM)

\* The index a mate-downstream record links to: current_index + distance + 1.
LinkTarget(k) == k + input[k].distance_to_next_fragment + 1

\* Record k is the target of the downstream link of some record.
Linked(k) == \E m \in DOMAIN input : Downstream(m) /\ LinkTarget(m) = k

\* The first records of chains: mate-downstream and reached by no link.
ChainHeads == { k \in DOMAIN input : Downstream(k) /\ ~Linked(k) }

\* The record reached from k by following downstream links until a record
\* with no downstream link.
RECURSIVE ChainTailFrom(_, _)
ChainTailFrom(k, fuel) ==
    IF fuel = 0 \/ ~InBounds(k, Len0(input)) \/ ~Downstream(k) THEN k
    ELSE ChainTailFrom(LinkTarget(k), fuel - 1)

ChainTail(h) == ChainTailFrom(h, Len0(input))

\* Every downstream link of the input points forward, inside the list.
ForwardLinks ==
    \A k \in DOMAIN input :
        Downstream(k) => /\ input[k].distance_to_next_fragment >= 0
                         /\ InBounds(LinkTarget(k), Len0(input))

\* No record is the target of two downstream links: chains do not merge.
DisjointChains ==
    \A k, m \in DOMAIN input :
        (Downstream(k) /\ Downstream(m) /\ LinkTarget(k) = LinkTarget(m))
            => k = m

\* C1 (as claimed): after resolve_mates the head h of every chain has
\* template_size = tail.alignment_end - h.alignment_start + 1 (an unset
\* start counting as 0) and the tail has the negated value.
C1_TemplateSizeHeadPositive ==
    (rm_pc = "done" /\ ForwardLinks) =>
        \A h \in ChainHeads :
            LET t == ChainTail(h)
            IN  /\ records[h].template_size =
                       alignment_end(records[t])
                       - unwrap_or_default(records[h].alignment_start) + 1
                /\ records[t].template_size = 0 - records[h].template_size

\* C2: after resolve_mates every mate-downstream record at index k whose
\* distance d is >= 0 with k + d + 1 inside the list carries the reference
\* id and the alignment start of the record at k + d + 1 as its next
\* fragment reference id and next mate alignment start.
C2_LinkCopiesMatePosition ==
    rm_pc = "done" =>
        \A k \in DOMAIN records :
            ( /\ HasBit(records[k].flags, HAS_MATE_DOWNSTREAM)
              /\ records[k].distance_to_next_fragment >= 0
              /\ InBounds(k + records[k].distance_to_next_fragment + 1,
                          Len0(records)) )
            => LET m == k + records[k].distance_to_next_fragment + 1
               IN  /\ records[k].next_fragment_reference_sequence_id =
                          records[m].reference_sequence_id
                   /\ records[k].next_mate_alignment_start =
                          records[m].alignment_start

\* C2 witness: resolution is over and a record that an earlier chain passed
\* through, and that was then walked from again, links to a placed record.
C2_Witness ==
    /\ rm_pc = "done"
    /\ \E k \in DOMAIN records :
          /\ Downstream(k)
          /\ k \in reached
          /\ \E w \in 1 .. Len(walks) : walks[w].head = k
          /\ InBounds(LinkTarget(k), Len0(records))
          /\ LinkTarget(k) > k
          /\ records[LinkTarget(k)].alignment_start # None
          /\ records[k].next_mate_alignment_start =
                 records[LinkTarget(k)].alignment_start
          /\ records[k].next_mate_alignment_start # records[k].alignment_start

\* C3: in every step of resolve_mates a non-empty read name is kept; the
\* record a walk begins at, when its name is empty, gets the decimal text
\* of its own id; the record a walk step moves to, when its name is empty,
\* gets the (non-empty) name of its predecessor; no other name changes.
C3_Step ==
    /\ \A k \in DOMAIN records :
          records[k].read_name # << >>
              => records'[k].read_name = records[k].read_name
    /\ (rm_pc = "scan" /\ rm_pc' = "walk" /\ records[i].read_name = << >>)
          => records'[i].read_name = to_string(records[i].id)
    /\ (rm_pc = "walk" /\ rm_pc' = "walk" /\ records[j'].read_name = << >>)
          => /\ records'[j'].read_name = records[j].read_name
             /\ records[j].read_name # << >>
    /\ \A k \in DOMAIN records :
          records'[k].read_name # records[k].read_name
              => \/ rm_pc = "scan" /\ rm_pc' = "walk" /\ k = i
                 \/ rm_pc = "walk" /\ rm_pc' = "walk" /\ k = j'

C3_ReadNames == [][C3_Step]_vars

\* C3 witness: resolution is over; an unnamed chain head carries its own id
\* as name, a later unnamed record of its chain carries that same name, and
\* a named record reached by a link kept its name.
C3_Witness ==
    /\ rm_pc = "done"
    /\ \E h \in ChainHeads :
          /\ input[h].read_name = << >>
          /\ records[h].read_name = to_string(input[h].id)
          /\ InBounds(LinkTarget(h), Len0(records))
          /\ \E k \in reached :
                /\ input[k].read_name = << >>
                /\ records[k].read_name = to_string(input[h].id)
          /\ \E k \in reached :
                /\ input[k].read_name # << >>
                /\ records[k].read_name = input[k].read_name

\* C4 (as claimed), for chains that do not merge: no walk begins at a record that an earlier walk reached
\* through a downstream link, so after resolution the tail of every chain
\* mirrors the reference id and alignment start of the chain's first record
\* and holds the template size written together with that record's.
C4_EachChainWalkedOnce ==
    (rm_pc = "done" /\ ForwardLinks /\ DisjointChains) =>
        /\ \A w \in 1 .. Len(walks) : ~walks[w].revisit
        /\ \A h \in ChainHeads :
              LET t == ChainTail(h)
              IN  /\ records[t].next_fragment_reference_sequence_id =
                         records[h].reference_sequence_id
                  /\ records[t].next_mate_alignment_start =
                         records[h].alignment_start
                  /\ records[t].template_size =
                         0 - records[h].template_size

PreservationMap == compression_header.preservation_map

\* The data series of the decode calls of the last read_record, in order.
TraceSeries == [ k \in 1 .. Len(reader.trace) |-> reader.trace[k].series ]

RECURSIVE TagKeysOf(_)
\* The tag keys of the decode calls of a trace, in order.
TagKeysOf(trace) ==
    IF trace = << >> THEN << >>
    ELSE (IF Head(trace).series = "Tag" THEN << Head(trace).key >> ELSE << >>)
         \o TagKeysOf(Tail(trace))

\* n times the data series.
Repeat(series, n) == [ k \in 1 .. n |-> series ]

\* The data series a feature is made of.
SeriesOfFeature(code) ==
    << "ReadFeaturesCodes", "InReadPositions" >>
    \o (CASE code = "b" -> << "StretchesOfBases" >>
          [] code = "q" -> << "StretchesOfQualityScores" >>
          [] code = "B" -> << "Bases", "QualityScores" >>
          [] code = "X" -> << "BaseSubstitutionCodes" >>
          [] code = "I" -> << "Insertion" >>
          [] code = "D" -> << "DeletionLengths" >>
          [] code = "i" -> << "Bases" >>
          [] code = "Q" -> << "QualityScores" >>
          [] code = "N" -> << "ReferenceSkipLength" >>
          [] code = "S" -> << "SoftClip" >>
          [] code = "P" -> << "Padding" >>
          [] code = "H" -> << "HardClip" >>)

RECURSIVE SeriesOfFeatures(_)
SeriesOfFeatures(features) ==
    IF features = << >> THEN << >>
    ELSE SeriesOfFeature(Head(features).code)
         \o SeriesOfFeatures(Tail(features))

\* The order of the fields of a record, as data series.
FieldOrder(record) ==
    LET scores == IF HasBit(record.flags, QUALITY_SCORES_STORED_AS_ARRAY)
                  THEN Repeat("QualityScores", record.read_length)
                  ELSE << >>
    IN  << "BamBitFlags", "CramBitFlags" >>
        \o (IF reference_sequence_id = MANY
            THEN << "ReferenceId" >> ELSE << >>)
        \o << "ReadLengths", "InSeqPositions", "ReadGroups" >>
        \o (IF PreservationMap.read_names_included
            THEN << "ReadNames" >> ELSE << >>)
        \o (IF HasBit(record.flags, DETACHED)
            THEN << "NextMateBitFlags" >>
                 \o (IF PreservationMap.read_names_included
                     THEN << >> ELSE << "ReadNames" >>)
                 \o << "NextFragmentReferenceSequenceId",
                       "NextMateAlignmentStart", "TemplateSize" >>
            ELSE IF HasBit(record.flags, HAS_MATE_DOWNSTREAM)
            THEN << "DistanceToNextFragment" >>
            ELSE << >>)
        \o << "TagIds" >>
        \o Repeat("Tag", Len(record.tags))
        \o (IF HasBit(record.bam_bit_flags, UNMAPPED)
            THEN Repeat("Bases", record.read_length) \o scores
            ELSE << "NumberOfReadFeatures" >>
                 \o SeriesOfFeatures(record.features)
                 \o << "MappingQualities" >>
                 \o scores)

\* C6: a read_record call that returns a record has made its decode calls
\* in the order of the fields: BAM bit flags, CRAM bit flags, the reference
\* id when the slice holds many references, read length, alignment start,
\* read group, the read name when names are stored, mate data, the tag line
\* and one value per key of its dictionary entry, in the order of the entry,
\* then bases and quality scores (unmapped) or feature count, features,
\* mapping quality and quality scores (mapped).
C6_FieldOrder ==
    result.st = "ok" =>
        /\ TraceSeries = FieldOrder(result.v)
        /\ LET keys == PreservationMap.tag_ids_dictionary[
                           DecodedValue(reader.trace, "TagIds") + 1]
           IN  TagKeysOf(reader.trace) = [ k \in 1 .. Len(keys) |-> keys[k].id ]

\* A second record of a slice with many references and stored names was
\* read: detached, with two tags, two features and a quality score array.
C6_Witness ==
    /\ result.st = "ok"
    /\ calls = 2
    /\ reference_sequence_id = MANY
    /\ PreservationMap.read_names_included
    /\ HasBit(result.v.flags, DETACHED)
    /\ ~HasBit(result.v.bam_bit_flags, UNMAPPED)
    /\ Len(result.v.tags) = 2
    /\ Len(result.v.features) = 2
    /\ Len(result.v.quality_scores) = 2

\* C7: with the delta coding of alignment starts, the alignment start of
\* the record returned is the initial alignment start of the slice (0 when
\* unset) plus the deltas decoded by the successful calls so far; without
\* it, it is the value decoded by the call.  0 is reported as unset, and
\* the reader keeps the alignment start of the record returned.
C7_AlignmentStart ==
    result.st = "ok" =>
        LET expected == IF PreservationMap.ap_data_series_delta
                        THEN starts
                        ELSE DecodedValue(reader.trace, "InSeqPositions")
        IN  /\ result.v.alignment_start =
                   IF expected = 0 THEN None ELSE Some(expected)
            /\ reader.prev_alignment_start = result.v.alignment_start

\* The second record of a slice was read with delta coding, from an initial
\* alignment start and two deltas, none of them 0.
C7_Witness ==
    /\ result.st = "ok"
    /\ calls = 2
    /\ PreservationMap.ap_data_series_delta
    /\ DecodedValue(reader.trace, "InSeqPositions") = 3
    /\ starts = 5 + 3 + 3
    /\ result.v.alignment_start = Some(11)

\* C8: when the tag line decoded is negative or not less than the number
\* of entries of the tag dictionary, read_record returns an InvalidData
\* error and no record, and no tag value is decoded.
C8_TagLineInBounds ==
    \A k \in 1 .. Len(reader.trace) :
        LET e == reader.trace[k]
        IN  /\ e.series = "TagIds"
            /\ e.st = "ok"
            /\ (e.v < 0 \/ e.v >= Len(PreservationMap.tag_ids_dictionary))
            => /\ result.st = "err"
               /\ result.kind = "InvalidData"
               /\ result.v = << >>
               /\ k = Len(reader.trace)

\* A tag line equal to the size of the dictionary was decoded.
C8_Witness ==
    /\ result.st = "err"
    /\ reader.trace # << >>
    /\ reader.trace[Len(reader.trace)].series = "TagIds"
    /\ reader.trace[Len(reader.trace)].st = "ok"
    /\ reader.trace[Len(reader.trace)].v =
           Len(PreservationMap.tag_ids_dictionary)

\* The encoding the header has for an item of a record, if any.
EncodingOfItem(item) ==
    IF item.series = "Tag"
    THEN IF item.key \in DOMAIN compression_header.tag_encoding_map
         THEN Some(compression_header.tag_encoding_map[item.key])
         ELSE None
    ELSE encoding_of(item.series)

\* The external block an encoding reads, when it is not one of the slice.
MissingBlockOf(encoding) ==
    IF /\ encoding # None
       /\ encoding[1].tag \in { "External", "ByteArrayStop" }
       /\ encoding[1].id \notin DOMAIN reader.ext
    THEN Some(encoding[1].id)
    ELSE None

\* The header and the slice have what the decoding of the item needs.
Available(item) ==
    /\ EncodingOfItem(item) # None
    /\ MissingBlockOf(EncodingOfItem(item)) = None

\* The error of an item that is not available.
ErrorOfItem(item) ==
    IF EncodingOfItem(item) # None
    THEN [ error |-> "MissingExternalBlock", series |-> "",
           id |-> MissingBlockOf(EncodingOfItem(item))[1] ]
    ELSE IF item.series = "Tag"
    THEN [ error |-> "MissingTagEncoding", series |-> "", id |-> item.key ]
    ELSE [ error |-> "MissingDataSeriesEncoding", series |-> item.series,
           id |-> 0 ]

\* The first item of the record last read that is not available, or 0.
FirstUnavailable ==
    IF \E k \in 1 .. Len(fed) : ~Available(fed[k])
    THEN CHOOSE k \in 1 .. Len(fed) :
             ~Available(fed[k]) /\ \A x \in 1 .. k - 1 : Available(fed[x])
    ELSE 0

\* The errors and panics a decoded value is rejected with.
RejectsValue ==
    \/ result.st = "panic"
    \/ result.error \in { "TryFromIntError", "invalid tag line",
                          "invalid feature code" }

\* The items before the k-th of the record were decoded, the last of them
\* to a value read_record went on with.
Needs(k) ==
    /\ Len(reader.trace) >= k - 1
    /\ \A x \in 1 .. k - 1 :
           /\ reader.trace[x].st = "ok"
           /\ reader.trace[x].series = fed[x].series
    /\ Len(reader.trace) = k - 1 => ~RejectsValue

\* C9: when read_record needs an item with no encoding in the header, or
\* whose External or ByteArrayStop encoding names a block the slice does
\* not have, it returns the InvalidData error of that item and no record:
\* MissingDataSeriesEncoding with the data series, MissingTagEncoding with
\* the tag key, MissingExternalBlock with the block content id; these
\* errors are returned for no other item, and no record is returned
\* from items that are not available.
C9_MissingIsError ==
    /\ result.st = "ok" => \A k \in 1 .. Len(fed) : Available(fed[k])
    /\ FirstUnavailable # 0 /\ Needs(FirstUnavailable) =>
           /\ result.st = "err"
           /\ result.kind = "InvalidData"
           /\ result.v = << >>
           /\ [ error |-> result.error, series |-> result.series,
                id |-> result.id ] = ErrorOfItem(fed[FirstUnavailable])
    /\ result.error \in { "MissingDataSeriesEncoding", "MissingTagEncoding",
                          "MissingExternalBlock" } =>
           /\ FirstUnavailable # 0
           /\ Needs(FirstUnavailable)

\* A record whose DistanceToNextFragment has a mate downstream was read
\* with a header that has no encoding for it.
C9_Witness ==
    /\ result.st = "err"
    /\ result.error = "MissingDataSeriesEncoding"
    /\ result.series = "DistanceToNextFragment"
    /\ encoding_of("DistanceToNextFragment") = None
    /\ Len(reader.trace) >= 5
    /\ HasBit(reader.trace[2].v, HAS_MATE_DOWNSTREAM)

\* The encoding a decode call was made with is one its decode function has
\* no arm for.
Unsupported(e) ==
    LET encoding == EncodingOfItem(e)
    IN  /\ encoding # None
        /\ IF e.series = "Tag" \/ e.series \in Range(ArraySeries)
           THEN encoding[1].tag \notin { "ByteArrayLen", "ByteArrayStop" }
           ELSE encoding[1].tag \notin { "External", "Huffman", "Beta" }

\* C10: a decode call with an encoding that is not supported for the shape
\* of its data series (decode_byte or decode_itf8 with a byte array encoding,
\* decode_byte_array with Huffman, Beta or an External without length)
\* returns an error, and so does read_record: neither panics.
C10_UnsupportedIsError ==
    \A k \in 1 .. Len(reader.trace) :
        Unsupported(reader.trace[k]) =>
            /\ reader.trace[k].st = "err"
            /\ result.st = "err"

\* ------------------------------------------------------------------------
\* Encoding evaluator: properties
\* ------------------------------------------------------------------------

\* The call made was `name` with an encoding of variant `tag`.
Called(name, tag) ==
    /\ call # << >>
    /\ call.name = name
    /\ call.encoding.tag = tag

\* The external stream the encoding of the call names, as the call found it.
StreamBefore == pre.ext[call.encoding.id]

\* The external stream the encoding of the call names, as the call left it.
StreamAfter == reader.ext[call.encoding.id]

\* The encoding of the call names a block of the slice.
HasStream == call.encoding.id \in DOMAIN pre.ext

\* C11: a stream that ends too early is an error: decode_byte (External) on
\* an empty stream, decode_byte_array (External) on a stream with fewer
\* bytes than the buffer, and decode_byte_array (ByteArrayStop) on a stream
\* without the stop byte, the empty stream included, return an error.
C11_EndOfStreamIsError ==
    /\ Called("decode_byte", "External") /\ HasStream
       /\ StreamBefore = << >>
       => result.st = "err"
    /\ Called("decode_byte_array", "External") /\ HasStream
       /\ call.buf # None /\ Len(StreamBefore) < call.buf[1]
       => result.st = "err"
    /\ Called("decode_byte_array", "ByteArrayStop") /\ HasStream
       /\ call.encoding.stop_byte \notin Range(StreamBefore)
       => result.st = "err"

\* ------------------------------------------------------------------------
\* Record reader: conversions
\* ------------------------------------------------------------------------

\* The value decoded for a data series in the last read_record is outside
\* lo .. hi.
DecodedOutside(series, lo, hi) ==
    \E k \in 1 .. Len(reader.trace) :
        /\ reader.trace[k].series = series
        /\ reader.trace[k].st = "ok"
        /\ (reader.trace[k].v < lo \/ reader.trace[k].v > hi)

\* The alignment start of the last read_record, from the value decoded and
\* the sum of the deltas before it, is negative. `starts` includes the
\* value decoded once the call has returned a record.
NegativeAlignmentStart ==
    \E k \in 1 .. Len(reader.trace) :
        LET n == reader.trace[k].v
        IN  /\ reader.trace[k].series = "InSeqPositions"
            /\ reader.trace[k].st = "ok"
            /\ IF ~PreservationMap.ap_data_series_delta
               THEN n < 0
               ELSE IF result.st = "ok"
               THEN starts < 0
               ELSE n < 0 - starts

\* C12: read_record returns an InvalidData error and no record when a
\* decoded integer does not fit the type of its field: BAM bit flags outside
\* 0 .. 65535, CRAM bit flags, mate bit flags or mapping quality outside
\* 0 .. 255, a negative read length, a negative alignment start or mate
\* alignment start.
C12_ConversionsChecked ==
    \/ DecodedOutside("BamBitFlags", 0, 65535)
    \/ DecodedOutside("CramBitFlags", 0, 255)
    \/ DecodedOutside("NextMateBitFlags", 0, 255)
    \/ DecodedOutside("MappingQualities", 0, 255)
    \/ DecodedOutside("ReadLengths", 0, I32_MAX)
    \/ DecodedOutside("NextMateAlignmentStart", 0, I32_MAX)
    \/ NegativeAlignmentStart
    => /\ result.st = "err"
       /\ result.kind = "InvalidData"
       /\ result.error = "TryFromIntError"
       /\ result.v = << >>

\* BAM bit flags of 65536 were decoded.
C12_Witness ==
    /\ result.st = "err"
    /\ reader.trace # << >>
    /\ reader.trace[1].series = "BamBitFlags"
    /\ reader.trace[1].v = 65536

\* ------------------------------------------------------------------------
\* Slice::records: properties
\* ------------------------------------------------------------------------

\* The list Slice::records returned holds record_count records, the k-th of
\* them with the id record_counter + k, and the last of them is the record
\* the last read_record returned.
ReturnedList ==
    returned.st = "ok" =>
        /\ calls = record_count
        /\ DOMAIN returned.v = 0 .. record_count - 1
        /\ \A k \in DOMAIN returned.v :
               returned.v[k].id = record_counter + k
        /\ record_count > 0 =>
               returned.v[record_count - 1] =
                   [result.v EXCEPT !.id = record_counter + record_count - 1]

\* The error of a read_record call is the error of Slice::records, which
\* returns no list then.
ReturnedError ==
    result.st = "err" =>
        /\ returned.st = "err"
        /\ returned.v = << >>
        /\ returned.error = result.error

\* C13: Slice::records returns an error or a list of exactly record_count
\* records in decode order with the ids record_counter, record_counter + 1,
\* ...; when a read_record call fails the call fails and returns no list.
C13_ErrorOrAllRecords ==
    /\ returned.st \in { "none", "ok", "err" }
    /\ ReturnedList
    /\ ReturnedError

\* ------------------------------------------------------------------------
\* read_ltf8: properties
\* ------------------------------------------------------------------------

ReadLtf8Called == call # << >> /\ call.name = "read_ltf8"

\* The number of leading set bits of a byte.
LeadingOnes(b) ==
    IF b < 128 THEN 0
    ELSE IF b < 192 THEN 1
    ELSE IF b < 224 THEN 2
    ELSE IF b < 240 THEN 3
    ELSE IF b < 248 THEN 4
    ELSE IF b < 252 THEN 5
    ELSE IF b < 254 THEN 6
    ELSE IF b < 255 THEN 7
    ELSE 8

\* C14: read_ltf8 consumes the first byte and as many bytes as the first
\* byte has leading set bits, 0 to 8, whatever the bytes are; it fails when
\* and only when the stream ends before that.
C14_Ltf8Length ==
    ReadLtf8Called =>
        LET data == pre.ext[1]
        IN  IF data # << >> /\ Len(data) >= 1 + LeadingOnes(data[1])
            THEN /\ result.st = "ok"
                 /\ reader.ext[1] = DropN(data, 1 + LeadingOnes(data[1]))
            ELSE /\ result.st = "err"
                 /\ result.kind = "UnexpectedEof"

\* A first byte of 0xff was read with 8 bytes after it and one more left.
C14_Witness ==
    /\ ReadLtf8Called
    /\ result.st = "ok"
    /\ pre.ext[1][1] = 255
    /\ Len(pre.ext[1]) = 10
    /\ Len(reader.ext[1]) = 1

\* Sequence s, with zeros before it, as 8 bytes.
Pad8(s) == [ k \in 1 .. 8 - Len(s) |-> 0 ] \o s

\* The integer an i64 is, when its upper 4 bytes are its sign only.
AsInteger(v) ==
    IF v[5] >= 128
    THEN (v[5] - 256) * 16777216 + v[6] * 65536 + v[7] * 256 + v[8]
    ELSE v[5] * 16777216 + v[6] * 65536 + v[7] * 256 + v[8]

\* C15: the value of read_ltf8, as 8 big-endian bytes, is: for a first
\* byte with k <= 6 leading set bits, its low 7 - k bits followed by the k
\* bytes after it; for 0xfe the 7 bytes after it; for 0xff the 8 bytes
\* after it, as they are.  So ff ff ff ff ff ff ff ff 56 is -170 and
\* c0 55 aa is 21930.
C15_Ltf8Value ==
    ReadLtf8Called /\ result.st = "ok" =>
        LET data == pre.ext[1]
            k == LeadingOnes(data[1])
            following == SubSeq(data, 2, 1 + k)
        IN  /\ result.v = IF k <= 6
                          THEN Pad8(<< data[1] % Pow2(7 - k) >> \o following)
                          ELSE Pad8(following)
            /\ Len(data) >= 9
               /\ TakeN(data, 9) = << 255, 255, 255, 255, 255, 255, 255, 255, 86 >>
               => AsInteger(result.v) = -170
            /\ Len(data) >= 3
               /\ TakeN(data, 3) = << 192, 85, 170 >>
               => AsInteger(result.v) = 21930

\* ff ff ff ff ff ff ff ff 56 was read.
C15_Witness ==
    /\ ReadLtf8Called
    /\ result.st = "ok"
    /\ Len(pre.ext[1]) >= 9
    /\ TakeN(pre.ext[1], 9) = << 255, 255, 255, 255, 255, 255, 255, 255, 86 >>
    /\ result.v = << 255, 255, 255, 255, 255, 255, 255, 86 >>
    /\ AsInteger(result.v) = -170

\* The bits a Beta encoding of the call reads, and their value.
BetaBits == TakeN(pre.core, call.encoding.len)

\* read_bits(width) - offset is an i32.
BetaFits ==
    call.encoding.offset >= 0
    \/ BitsValue(BetaBits) <= I32_MAX + call.encoding.offset

\* A call with a Beta encoding read its bits and nothing else, and returned
\* read_bits(width) - offset: as it is when `modulus` is 0, else modulo
\* `modulus`.
BetaReturns(modulus) ==
    /\ result.st = "ok"
    /\ reader.core = DropN(pre.core, call.encoding.len)
    /\ reader.ext = pre.ext
    /\ IF modulus = 0
       THEN BetaFits /\ result.v = BitsValue(BetaBits) - call.encoding.offset
       ELSE result.v = ((BitsValue(BetaBits) % modulus)
                        - (call.encoding.offset % modulus)) % modulus

\* C16: with Beta(offset, width) and width bits left in the core stream,
\* decode_itf8 consumes those bits, no byte of an external stream, and
\* returns read_bits(width) - offset as an integer; decode_byte returns the
\* same value narrowed to a byte.
C16_BetaValue ==
    /\ Called("decode_itf8", "Beta") /\ Len(pre.core) >= call.encoding.len
       => BetaReturns(0)
    /\ Called("decode_byte", "Beta") /\ Len(pre.core) >= call.encoding.len
       => BetaReturns(256)

\* The call had a Huffman encoding whose alphabet is one symbol.
SingleSymbol(name) ==
    /\ Called(name, "Huffman")
    /\ Len(call.encoding.alphabet) = 1

\* The call moved neither the core bit reader nor an external stream.
NothingConsumed ==
    /\ reader.core = pre.core
    /\ reader.ext = pre.ext

\* C17: with a Huffman encoding of a one-symbol alphabet, decode_itf8
\* returns that symbol and decode_byte returns it as a byte, whatever the
\* code lengths are and whatever the streams hold, and neither moves the
\* core bit reader nor any external stream.
C17_SingleSymbol ==
    /\ SingleSymbol("decode_itf8")
       => /\ result.st = "ok"
          /\ result.v = call.encoding.alphabet[1]
          /\ NothingConsumed
    /\ SingleSymbol("decode_byte")
       => /\ result.st = "ok"
          /\ result.v = call.encoding.alphabet[1] % 256
          /\ NothingConsumed

\* decode_itf8 returned 0x4e for the alphabet [0x4e] with a code length of
\* 3, with bits left in the core stream and bytes in the external ones.
C17_Witness ==
    /\ SingleSymbol("decode_itf8")
    /\ call.encoding.bit_lens = << 3 >>
    /\ Len(pre.core) >= 3
    /\ pre.ext[1] # << >>
    /\ result.st = "ok"
    /\ result.v = 78
    /\ NothingConsumed

\* The length a ByteArrayLen call decodes: its length encoding applied to
\* the state the call found.
DecodedLength == decode_itf8(pre, call.encoding.len_encoding)

\* Both encodings of a ByteArrayLen call are External, on one stream of
\* the slice.
SameStream ==
    /\ call.encoding.len_encoding.tag = "External"
    /\ call.encoding.value_encoding.tag = "External"
    /\ call.encoding.len_encoding.id = call.encoding.value_encoding.id
    /\ call.encoding.len_encoding.id \in DOMAIN pre.ext

\* With both encodings on stream id: the length is the ITF8 integer at the
\* cursor, the value the n bytes after it, and the cursor ends after them.
LengthThenValue(id) ==
    LET length == read_itf8(pre, id)
        after  == length.m.ext[id]
    IN  /\ length.st = "ok" /\ length.v >= 0 /\ Len(after) >= length.v
           => /\ result.st = "ok"
              /\ result.v = TakeN(after, length.v)
              /\ reader.ext[id] = DropN(after, length.v)
              /\ reader.core = pre.core
        /\ result.st = "ok"
           => length.st = "ok" /\ length.v >= 0 /\ Len(after) >= length.v

\* C18: decode_byte_array with ByteArrayLen decodes the length n with the
\* length encoding, then the value with the value encoding from where the
\* length ended; an External value has exactly n bytes; when both encodings
\* are External on the same stream, the length is read at the cursor, the
\* value is the n bytes that follow and the cursor ends right after them.
C18_LengthThenValue ==
    Called("decode_byte_array", "ByteArrayLen")
    => /\ DecodedLength.st # "ok"
          => result.st = DecodedLength.st /\ reader = DecodedLength.m
       /\ DecodedLength.st = "ok" /\ DecodedLength.v >= 0
          => LET value == decode_byte_array(DecodedLength.m,
                                            call.encoding.value_encoding,
                                            Some(DecodedLength.v))
             IN  /\ result.st = value.st
                 /\ reader = value.m
                 /\ value.st = "ok" => result.v = value.v
       /\ call.encoding.value_encoding.tag = "External" /\ result.st = "ok"
          => Len(result.v) = DecodedLength.v
       /\ SameStream => LengthThenValue(call.encoding.len_encoding.id)

\* The bytes 0x04 'n' 'd' 'l' 's' of one stream decoded to "ndls", with the
\* stream left at its end.
C18_Witness ==
    /\ Called("decode_byte_array", "ByteArrayLen")
    /\ SameStream
    /\ pre.ext[1] = << 4, 110, 100, 108, 115 >>
    /\ result.st = "ok"
    /\ result.v = << 110, 100, 108, 115 >>
    /\ reader.ext[1] = << >>

\* C19: decode_byte_array with ByteArrayStop(stop, id), when the stop byte
\* is in what is left of stream id, returns the bytes before the first stop
\* byte, without it, and leaves the stream right after that stop byte; the
\* core reader and the other streams do not move.
C19_UpToStopByte ==
    Called("decode_byte_array", "ByteArrayStop") /\ HasStream
    /\ call.encoding.stop_byte \in Range(StreamBefore)
    => /\ result.st = "ok"
       /\ call.encoding.stop_byte \notin Range(result.v)
       /\ StreamBefore = result.v \o << call.encoding.stop_byte >> \o StreamAfter
       /\ reader.core = pre.core
       /\ \A id \in DOMAIN pre.ext \ { call.encoding.id } :
              reader.ext[id] = pre.ext[id]

\* The bytes 'n' 'd' 'l' 's' 0x00 decoded to "ndls" with the stop byte 0x00,
\* the stream left at its end.
C19_Witness ==
    /\ Called("decode_byte_array", "ByteArrayStop")
    /\ call.encoding.stop_byte = 0
    /\ pre.ext[1] = << 110, 100, 108, 115, 0 >>
    /\ result.st = "ok"
    /\ result.v = << 110, 100, 108, 115 >>
    /\ reader.ext[1] = << >>

\* ------------------------------------------------------------------------
\* SubstitutionMatrix: properties
\* ------------------------------------------------------------------------

\* The k-th (k = 1 .. 4) two-bit code of the byte for reference base r
\* (r = 0 .. 4), the most significant pair first.
CodeOf(r, k) == (encoded_substitution_matrix[r + 1] \div (4 ^ (4 - k))) % 4

NonReference(r) == NonReferenceBases[r]

\* The k-th code of the byte for r is not repeated after it in the byte.
LastWrite(r, k) == \A later \in k + 1 .. 4 : CodeOf(r, later) # CodeOf(r, k)

\* The four codes of the byte for r are distinct.
DistinctCodes(r) ==
    \A k1, k2 \in 1 .. 4 : CodeOf(r, k1) = CodeOf(r, k2) => k1 = k2

\* try_from has returned the matrix.
Decoded == LastConverted("try_from")

\* C20: try_from reads the byte of reference base r (A, C, G, T, N) as four
\* two-bit codes, the most significant pair first, and sets the entry of
\* row r at the k-th code to the k-th of the four other bases in the order
\* A, C, G, T, N (a later equal code overwrites an earlier one); a byte with
\* four distinct codes makes its row a permutation of the four other bases;
\* get(reference_base, code) with a code 0 .. 3 returns the base set at
\* that code.
C20_SubstitutionCodes ==
    Decoded =>
        /\ \A r \in 0 .. 4 :
            /\ \A k \in 1 .. 4 :
                   LastWrite(r, k) =>
                       substitution_matrix[r][CodeOf(r, k)] = NonReference(r)[k]
            /\ DistinctCodes(r) =>
                   /\ { substitution_matrix[r][c] : c \in 0 .. 3 }
                          = Range(Bases) \ { Bases[r + 1] }
                   /\ \A c1, c2 \in 0 .. 3 :
                          substitution_matrix[r][c1] = substitution_matrix[r][c2]
                              => c1 = c2
        /\ call.name = "get" /\ call.substitution_code <= 3 =>
               /\ result.st = "ok"
               /\ \A k \in 1 .. 4 :
                      LET r == BaseIndex(call.reference_base)
                      IN  CodeOf(r, k) = call.substitution_code
                          /\ LastWrite(r, k)
                          => result.v = NonReference(r)[k]

\* The bytes 93 1b 6c b1 c6 gave the matrix of test_try_from_u8_slice, and
\* get(G, 0) returned N.
C20_Witness ==
    /\ Decoded
    /\ encoded_substitution_matrix = TestCodes
    /\ substitution_matrix[0] = Row("T", "G", "C", "N")
    /\ substitution_matrix[1] = Row("A", "G", "T", "N")
    /\ substitution_matrix[2] = Row("N", "A", "C", "T")
    /\ substitution_matrix[3] = Row("G", "N", "A", "C")
    /\ substitution_matrix[4] = Row("C", "G", "T", "A")
    /\ call.name = "get"
    /\ call.reference_base = "G"
    /\ call.substitution_code = 0
    /\ result.st = "ok"
    /\ result.v = "N"

\* The conversions began with an array of five bytes whose bytes each hold
\* four distinct codes.
GivenDistinctCodes ==
    /\ DOMAIN given = 1 .. 5
    /\ \A r \in 1 .. 5 :
           \A k1, k2 \in 0 .. 3 :
               (given[r] \div (4 ^ k1)) % 4 = (given[r] \div (4 ^ k2)) % 4
                   => k1 = k2

\* The conversions began with a matrix whose rows are permutations of the
\* four bases other than the reference base of the row.
GivenPermutations ==
    /\ DOMAIN given = 0 .. 4
    /\ \A r \in 0 .. 4 :
           { given[r][c] : c \in 0 .. 3 } = Range(Bases) \ { Bases[r + 1] }

\* C21: the encoded substitution matrix round-trips: an array of five
\* bytes, each with four distinct codes, decoded with try_from and encoded
\* again is the same array; a matrix whose rows are permutations of the four
\* non-reference bases, encoded and decoded with try_from, is the same
\* matrix.
C21_RoundTrip ==
    /\ GivenDistinctCodes /\ converted = << "try_from", "from" >>
       => encoded_substitution_matrix = given
    /\ GivenPermutations /\ converted = << "from", "try_from" >>
       => substitution_matrix = given

\* A matrix whose row for A is G T N C was encoded, with the byte 0xc6 for
\* that row, and decoded to the same matrix.
C21_Witness ==
    /\ GivenPermutations
    /\ given[0] = Row("G", "T", "N", "C")
    /\ converted = << "from", "try_from" >>
    /\ encoded_substitution_matrix[1] = 198
    /\ substitution_matrix = given

\* ------------------------------------------------------------------------
\* Writer: properties
\* ------------------------------------------------------------------------

\* The records of the containers of a stream, in the order written.
RECURSIVE RecordsOf(_)
RecordsOf(stream) ==
    IF stream = << >> THEN << >>
    ELSE Head(stream).records \o RecordsOf(Tail(stream))

\* The positions of the EOF containers in the output stream.
EofPositions == { k \in 1 .. Len(inner) : inner[k].kind = "eof" }

\* Every record write_record accepted is in the data containers written,
\* once, in call order, and none is pending.
AllRecordsWritten ==
    /\ data_container_builder = << >>
    /\ RecordsOf(inner) = [ k \in 1 .. accepted |-> k ]

\* C22: once the writer is dropped, after any write_record calls and
\* try_finish, the output stream ends with the EOF container, which is
\* written exactly once, after every data container; every record accepted
\* is in exactly one data container, in call order.
C22_EofOnceAndLast ==
    writer_pc = "dropped" =>
        /\ EofPositions = { Len(inner) }
        /\ AllRecordsWritten

\* ------------------------------------------------------------------------
\* Record reader: mate data, read names, bases and features
\* ------------------------------------------------------------------------

\* The data series read_mate_data decodes.
MateSeries ==
    { "NextMateBitFlags", "NextFragmentReferenceSequenceId",
      "NextMateAlignmentStart", "TemplateSize", "DistanceToNextFragment" }

IsMateSeries(series) == series \in MateSeries

\* The mate data series of the decode calls of the last read_record.
MateSeriesDecoded == SelectSeq(TraceSeries, IsMateSeries)

\* The mate data series a record with the CRAM flags `flags` holds.
MateSeriesOf(flags) ==
    IF HasBit(flags, DETACHED)
    THEN << "NextMateBitFlags", "NextFragmentReferenceSequenceId",
            "NextMateAlignmentStart", "TemplateSize" >>
    ELSE IF HasBit(flags, HAS_MATE_DOWNSTREAM)
    THEN << "DistanceToNextFragment" >>
    ELSE << >>

\* The bits of sam::record::Flags (u16).
BamBits == { 2 ^ k : k \in 0 .. 15 }

\* C23: a record read with the detached flag has its mate bit flags, mate
\* reference id, mate alignment start and template size decoded, in this
\* order, and no distance, the has-mate-downstream flag set or not; one
\* with the has-mate-downstream flag alone has only the distance decoded;
\* one with neither has no mate data decoded. The BAM flags of a detached
\* record are the decoded BAM flags with MATE_REVERSE_COMPLEMENTED added
\* when the mate is on the negative strand and MATE_UNMAPPED added when the
\* mate is unmapped, and no other change.
C23_MateData ==
    result.st = "ok" =>
        /\ MateSeriesDecoded = MateSeriesOf(result.v.flags)
        /\ result.v.flags = DecodedValue(reader.trace, "CramBitFlags")
        /\ HasBit(result.v.flags, DETACHED) =>
               LET decoded == DecodedValue(reader.trace, "BamBitFlags")
                   mate == DecodedValue(reader.trace, "NextMateBitFlags")
               IN  /\ result.v.next_mate_bit_flags = mate
                   /\ \A bit \in BamBits :
                          HasBit(result.v.bam_bit_flags, bit) <=>
                              \/ HasBit(decoded, bit)
                              \/ /\ bit = MATE_REVERSE_COMPLEMENTED
                                 /\ HasBit(mate, ON_NEGATIVE_STRAND)
                              \/ /\ bit = MATE_UNMAPPED
                                 /\ HasBit(mate, MATE_FLAG_UNMAPPED)
        /\ ~HasBit(result.v.flags, DETACHED) =>
               result.v.bam_bit_flags =
                   DecodedValue(reader.trace, "BamBitFlags")

\* A detached record with the has-mate-downstream flag too, whose mate is
\* unmapped and on the negative strand, was read: both mate bits were added.
C23_Witness ==
    /\ result.st = "ok"
    /\ HasBit(result.v.flags, DETACHED)
    /\ HasBit(result.v.flags, HAS_MATE_DOWNSTREAM)
    /\ DecodedValue(reader.trace, "BamBitFlags") = 0
    /\ result.v.bam_bit_flags = MATE_REVERSE_COMPLEMENTED + MATE_UNMAPPED
    /\ "DistanceToNextFragment" \notin Range(TraceSeries)

\* The places of the read name decodes in the trace of the last read_record.
NamePositions ==
    { k \in 1 .. Len(TraceSeries) : TraceSeries[k] = "ReadNames" }

\* The places of the decodes that follow read_read_names.
AfterNames ==
    { k \in 1 .. Len(TraceSeries) :
          TraceSeries[k] \in MateSeries \cup { "TagIds" } }

\* C24: a read_record call decodes the read name series at most once: with
\* read names included, once, before any mate data; with read names not
\* included and a detached record, once, inside the mate data (after the
\* mate bit flags, before the mate reference id); otherwise not at all, and
\* then the read name of the record is empty.
C24_ReadNameOnce ==
    /\ Cardinality(NamePositions) <= 1
    /\ PreservationMap.read_names_included =>
           \A k \in AfterNames : \E n \in NamePositions : n < k
    /\ ~PreservationMap.read_names_included =>
           /\ \A n \in NamePositions :
                  n > 1 /\ TraceSeries[n - 1] = "NextMateBitFlags"
           /\ \A k \in 1 .. Len(TraceSeries) :
                  TraceSeries[k] = "NextFragmentReferenceSequenceId" =>
                      k - 1 \in NamePositions
    /\ result.st = "ok" =>
           /\ Cardinality(NamePositions) =
                  IF \/ PreservationMap.read_names_included
                     \/ HasBit(result.v.flags, DETACHED)
                  THEN 1 ELSE 0
           /\ result.v.read_name =
                  IF NamePositions = {} THEN << >>
                  ELSE DecodedValue(reader.trace, "ReadNames")

\* A detached record was read from a slice without stored read names: its
\* name came from the mate data; and a record that is not detached was
\* read from such a slice: no name was decoded.
C24_Witness ==
    /\ result.st = "ok"
    /\ ~PreservationMap.read_names_included
    /\ HasBit(result.v.flags, DETACHED)
    /\ \E n \in NamePositions : TraceSeries[n - 1] = "NextMateBitFlags"
    /\ result.v.read_name = << 114, 49 >>

C24_WitnessNoName ==
    /\ result.st = "ok"
    /\ ~PreservationMap.read_names_included
    /\ ~HasBit(result.v.flags, DETACHED)
    /\ NamePositions = {}
    /\ result.v.read_name = << >>

\* The number of decodes of a data series in the last read_record.
Decodes(series) ==
    Cardinality({ k \in 1 .. Len(TraceSeries) : TraceSeries[k] = series })

\* The quality score array of the record returned holds read_length scores
\* when the CRAM flags say scores are stored as an array, none otherwise.
QualityScoreArray ==
    Len(result.v.quality_scores) =
        IF HasBit(result.v.flags, QUALITY_SCORES_STORED_AS_ARRAY)
        THEN result.v.read_length ELSE 0

\* The record returned is an unmapped read: read_length bases, no feature,
\* no mapping quality decoded.
UnmappedRead ==
    /\ Len(result.v.bases) = result.v.read_length
    /\ Decodes("Bases") = result.v.read_length
    /\ result.v.features = << >>
    /\ Decodes("NumberOfReadFeatures") = 0
    /\ Decodes("ReadFeaturesCodes") = 0
    /\ Decodes("MappingQualities") = 0
    /\ result.v.mapping_quality = DefaultRecord.mapping_quality

\* The record returned is a mapped read but for the number of its features:
\* no inline bases, and the mapping quality, 255 being None.
MappedReadFields ==
    /\ result.v.bases = << >>
    /\ Decodes("MappingQualities") = 1
    /\ result.v.mapping_quality =
           IF DecodedValue(reader.trace, "MappingQualities") = MISSING
           THEN None
           ELSE Some(DecodedValue(reader.trace, "MappingQualities"))

\* The feature count decoded by the last read_record.
DecodedFeatureCount == DecodedValue(reader.trace, "NumberOfReadFeatures")

\* C25: a record returned with the BAM unmapped bit set has read_length
\* bases, no features and no decoded mapping quality; one with the bit
\* clear has no inline bases, as many features as the decoded feature
\* count, and the mapping quality (255 is missing); both have read_length
\* quality scores when scores are stored as an array and none otherwise.
C25_BasesOrFeatures ==
    result.st = "ok" =>
        /\ QualityScoreArray
        /\ IF HasBit(result.v.bam_bit_flags, UNMAPPED)
           THEN UnmappedRead
           ELSE /\ MappedReadFields
                /\ Len(result.v.features) = DecodedFeatureCount

\* The same with the features counted as the loop `0..feature_count`
\* counts them: none for a negative count.
C25_CountedFromZero ==
    result.st = "ok" =>
        /\ QualityScoreArray
        /\ IF HasBit(result.v.bam_bit_flags, UNMAPPED)
           THEN UnmappedRead
           ELSE /\ MappedReadFields
                /\ Len(result.v.features) =
                       IF DecodedFeatureCount < 0 THEN 0
                       ELSE DecodedFeatureCount

\* A mapped record with three features and one with a missing mapping
\* quality were read, and an unmapped one with two bases and two scores.
C25_MappedReached ==
    /\ result.st = "ok"
    /\ ~HasBit(result.v.bam_bit_flags, UNMAPPED)
    /\ Len(result.v.features) = 3
    /\ DecodedFeatureCount = 3

C25_UnmappedReached ==
    /\ result.st = "ok"
    /\ HasBit(result.v.bam_bit_flags, UNMAPPED)
    /\ Len(result.v.bases) = 2
    /\ Len(result.v.quality_scores) = 2

IsPositionDelta(e) == e.series = "InReadPositions" /\ e.st = "ok"

\* The position deltas decoded by the last read_record, in order.
PositionDeltas ==
    LET decoded == SelectSeq(reader.trace, IsPositionDelta)
    IN  [ k \in 1 .. Len(decoded) |-> decoded[k].v ]

\* a + b is an i32.
FitsI32(a, b) ==
    /\ ~(b > 0 /\ a > I32_MAX - b)
    /\ ~(b < 0 /\ a < (0 - I32_MAX - 1) - b)

\* The sums of the first 1, 2, ... deltas, from `sum` on, as Some(sum); the
\* list ends with None at the first sum that is no i32.
RECURSIVE RunningSums(_, _)
RunningSums(deltas, sum) ==
    IF deltas = << >> THEN << >>
    ELSE IF FitsI32(sum, Head(deltas))
    THEN << Some(sum + Head(deltas)) >>
         \o RunningSums(Tail(deltas), sum + Head(deltas))
    ELSE << None >>

\* C26: the position of the j-th feature of a mapped record returned is
\* the sum of the first j position deltas decoded for this record; the sum
\* starts at 0 for every record.
C26_FeaturePositions ==
    result.st = "ok" /\ ~HasBit(result.v.bam_bit_flags, UNMAPPED) =>
        LET sums == RunningSums(PositionDeltas, 0)
        IN  /\ Len(PositionDeltas) = Len(result.v.features)
            /\ \A k \in 1 .. Len(sums) :
                   Some(result.v.features[k].position) = sums[k]

\* The same for the records whose sums are all i32 values.
C26_WithinI32 ==
    result.st = "ok" /\ ~HasBit(result.v.bam_bit_flags, UNMAPPED) =>
        LET sums == RunningSums(PositionDeltas, 0)
        IN  /\ Len(PositionDeltas) = Len(result.v.features)
            /\ None \notin Range(sums) =>
                   \A k \in 1 .. Len(sums) :
                       Some(result.v.features[k].position) = sums[k]

\* A sum beyond i32::MAX ends in a panic or in a record; the record holds
\* the wrapped position.
C26_SumBeyondI32 ==
    /\ result.st = "ok"
    /\ PositionDeltas = << I32_MAX, 1 >>
    /\ result.v.features[2].position = 0 - I32_MAX - 1

\* The second record of a slice was read, with the deltas 1, 2, 0, after a
\* first record with features: its positions are 1, 3, 3.
C26_SecondRecord ==
    /\ result.st = "ok"
    /\ calls = 2
    /\ Len(records[0].features) = 4
    /\ PositionDeltas = << 1, 2, 0 >>
    /\ [ k \in 1 .. 3 |-> result.v.features[k].position ] = << 1, 3, 3 >>

\* The integers decoded for feature codes by the last read_record.
IsFeatureCode(e) == e.series = "ReadFeaturesCodes" /\ e.st = "ok"

DecodedFeatureCodes ==
    LET decoded == SelectSeq(reader.trace, IsFeatureCode)
    IN  { decoded[k].v : k \in 1 .. Len(decoded) }

\* The byte values of the twelve feature codes.
ValidFeatureCodes == { FeatureCodes[c] : c \in DOMAIN FeatureCodes }

\* C27: a read_record call that decodes, for a feature code, an integer
\* that is not the byte value of one of the twelve feature codes returns
\* an InvalidData error; an integer outside 0..=255 is not reduced modulo
\* 256 to a code.
C27_InvalidFeatureCode ==
    (\E id \in DecodedFeatureCodes : id \notin ValidFeatureCodes) =>
        /\ result.st = "err"
        /\ result.kind = "InvalidData"

\* The same for the integers that are no code modulo 256.
C27_InvalidByte ==
    (\E id \in DecodedFeatureCodes : id % 256 \notin ValidFeatureCodes) =>
        /\ result.st = "err"
        /\ result.kind = "InvalidData"

\* The feature code 0 was decoded and rejected.
C27_ZeroRejected ==
    /\ 0 \in DecodedFeatureCodes
    /\ result.st = "err"
    /\ result.kind = "InvalidData"

\* The integer 344 was decoded for a feature code and a record with a
\* substitution was returned.
C27_ReducedModulo256 ==
    /\ 344 \in DecodedFeatureCodes
    /\ result.st = "ok"
    /\ result.v.features[1].code = "X"

\* ------------------------------------------------------------------------
\* resolve_mates: mate flags and completion
\* ------------------------------------------------------------------------

\* The two BAM flag bits set_mate writes.
MateBits == { MATE_REVERSE_COMPLEMENTED, MATE_UNMAPPED }

\* No BAM flag bit of the k-th record was cleared, and none but the two
\* mate bits was set.
OnlyMateBitsSet(k) ==
    \A bit \in BamBits :
        /\ HasBit(input[k].bam_bit_flags, bit) =>
               HasBit(records[k].bam_bit_flags, bit)
        /\ bit \notin MateBits =>
               (HasBit(records[k].bam_bit_flags, bit) <=>
                    HasBit(input[k].bam_bit_flags, bit))

\* C28: when resolve_mates has returned, every record with a downstream
\* link has MATE_REVERSE_COMPLEMENTED set if the record it links to is
\* reverse complemented and MATE_UNMAPPED set if that record is unmapped;
\* at every step, no BAM flag bit of any record has been cleared and no bit
\* other than these two has been set.
C28_MateFlags ==
    /\ \A k \in DOMAIN records : OnlyMateBitsSet(k)
    /\ rm_pc = "done" =>
           \A k \in DOMAIN records :
               Downstream(k) =>
                   LET mate == records[LinkTarget(k)]
                   IN  /\ HasBit(mate.bam_bit_flags, REVERSE_COMPLEMENTED) =>
                              HasBit(records[k].bam_bit_flags,
                                     MATE_REVERSE_COMPLEMENTED)
                       /\ HasBit(mate.bam_bit_flags, UNMAPPED) =>
                              HasBit(records[k].bam_bit_flags, MATE_UNMAPPED)

\* resolve_mates returned a list of three records chained 0 -> 1 -> 2, the
\* second reverse complemented and the third unmapped: the first has
\* MATE_REVERSE_COMPLEMENTED alone and the second MATE_UNMAPPED added to its
\* own bit.
C28_Witness ==
    /\ rm_pc = "done"
    /\ Len0(records) = 3
    /\ Downstream(0) /\ LinkTarget(0) = 1
    /\ Downstream(1) /\ LinkTarget(1) = 2
    /\ input[1].bam_bit_flags = REVERSE_COMPLEMENTED
    /\ input[2].bam_bit_flags = UNMAPPED
    /\ records[0].bam_bit_flags = input[0].bam_bit_flags
                                      + MATE_REVERSE_COMPLEMENTED
    /\ records[1].bam_bit_flags = REVERSE_COMPLEMENTED + MATE_UNMAPPED

\* Every index resolve_mates follows lies after the record that holds it
\* and inside the list.
IndicesForward ==
    \A k \in DOMAIN mate_indices :
        mate_indices[k] # None =>
            /\ mate_indices[k][1] > k
            /\ InBounds(mate_indices[k][1], Len0(records))

\* C29: resolve_mates completes for every record list: it never panics (no
\* index outside the list, no overflowing index addition, no second mutable
\* borrow of a record), and every index it follows lies after the current
\* record and inside the list, whatever the distances are.
C29_Completes ==
    /\ rm_pc # "panicked"
    /\ rm_pc \in { "scan", "walk", "done" } => IndicesForward

\* The same for the lists whose downstream links all point forward inside
\* the list.
C29_ForwardLinksComplete ==
    ForwardLinks =>
        /\ rm_pc # "panicked"
        /\ rm_pc \in { "scan", "walk", "done" } => IndicesForward

\* A list of one mate-downstream record with distance 0 makes the walk
\* index past the list.
C29_PastTheEnd ==
    /\ Len0(input) = 1
    /\ Downstream(0)
    /\ input[0].distance_to_next_fragment = 0
    /\ rm_pc = "panicked"

\* A negative distance makes the index addition overflow (a panic with
\* overflow checks) or wrap to an index at or before the record.
C29_NegativeDistance ==
    /\ \E k \in DOMAIN input :
           Downstream(k) /\ input[k].distance_to_next_fragment < 0
    /\ \/ rm_pc = "panicked" /\ overflow_checks /\ mate_indices[0] = None
       \/ rm_pc = "walk" /\ ~overflow_checks /\ ~IndicesForward

\* ------------------------------------------------------------------------
\* Query: properties
\* ------------------------------------------------------------------------

\* The closed intervals [a_start, a_end] and [b_start, b_end] share a point.
Overlapping(a_start, a_end, b_start, b_end) ==
    LET low == IF a_start >= b_start THEN a_start ELSE b_start
        high == IF a_end <= b_end THEN a_end ELSE b_end
    IN  low <= high

\* The moves of State: Seek to Read or End, Read to Seek, or none.
StateMoves ==
    \/ query'.state.tag = query.state.tag
    \/ query.state.tag = "Seek" /\ query'.state.tag \in { "Read", "End" }
    \/ query.state.tag = "Read" /\ query'.state.tag = "Seek"

\* One step of a query, as the claim describes it.
C30_Step ==
    query # << >> =>
        /\ StateMoves
        /\ query'.i >= query.i
        /\ seeks' = [ k \in 1 .. query'.i |-> k - 1 ]
        /\ query'.state.tag = "End" => query'.i = Len(query.chunks)
        /\ query'.state.tag = "Read" /\ query.state.tag = "Seek" =>
               /\ query'.i = query.i + 1
               /\ query'.state.chunk_end = query.chunks[query.i + 1].end
               /\ vcf'.position = query.chunks[query.i + 1].start
        /\ yielded' # yielded =>
               LET item == yielded'[Len(yielded')]
               IN  /\ Len(yielded') = Len(yielded) + 1
                   /\ item.st = "ok" =>
                          /\ item.record[1].chromosome =
                                 query.reference_sequence_name
                          /\ Overlapping(item.record[1].position,
                                         item.record[1].end[1],
                                         query.start, query.end)
                   /\ item.st = "none" => query.state.tag = "End"
        /\ query.state.tag = "End" =>
               /\ query' = query
               /\ vcf' = vcf
               /\ yielded' = Append(yielded, ItemNone)

\* C30: the query's state moves only from Seek to Read, from Read to Seek
\* and from Seek to End; the chunks are seeked in list order, the chunk
\* index never decreases, and a chunk is seeked with success at most once;
\* every record yielded has the reference sequence name of the query and an
\* interval [position, end] that overlaps the query's; End is reached only
\* with the chunks exhausted and is never left, and next() returns None on
\* every call made in it.
C30_QueryMoves == [][C30_Step]_vars

\* A query over two chunks yielded a record, came to End with both chunks
\* seeked in order, and returned None on two calls.
C30_Witness ==
    /\ query # << >>
    /\ query.state.tag = "End"
    /\ seeks = << 0, 1 >>
    /\ Len(yielded) = 3
    /\ yielded[1].st = "ok"
    /\ yielded[2] = ItemNone
    /\ yielded[3] = ItemNone

=============================================================================
